---- MODULE Spec2Model ----
(***************************************************************************)
(* CSR sparse matrix multiplication (ErikEremenko/csr_matrix_multiplication)*)
(*                                                                         *)
(* A Matrix is the struct of csrmatrix.h.  C arrays are 0-based; they are  *)
(* modelled as TLA+ sequences and read with At / written with Put, so the  *)
(* indices that appear in the definitions are the indices of the C code.   *)
(* float values are modelled as integers (exact products and sums).        *)
(* uint64_t is modelled as an unsigned word of WordBits bits.              *)
(***************************************************************************)
EXTENDS Integers, Sequences, FiniteSets, TLC

\* ---------------------------------------------------------------------------
\* Bounds of the model
\* ---------------------------------------------------------------------------
MaxRows == 2
\* rows of A
MaxInner == 2
\* columns of A = rows of B
MaxCols == 2
\* columns of B
MaxVal == 1
\* stored values range over -MaxVal..MaxVal without 0
MaxNnzA == 2
\* stored entries of A (B is bounded by its dimensions)
MaxThreads == 3
\* thread_count passed to start_threads
MaxThreadRows == 3
\* rows of A in the multithreaded kernel
MaxDenseRows == 2
MaxDenseCols == 3
\* dimensions of the dense matrices of the conversion round trip
MaxCsrNnz == 3
\* stored entries of the matrix of a CSR -> dense -> CSR round trip
MaxBuffer == 3
\* capacity of the buffer handed to clean_up_csr
MaxFailAt == 4
\* the realloc calls of two runs of clean_up_csr, any of which may fail
MaxMainRows == 2
\* rows of the matrices main multiplies (they have one column)
MaxMainFailAt == 12
\* the allocation calls of one multiplication, any of which may fail
MaxInitFailAt == 5
\* the allocation calls of init_empty_csr_matrix with prediction
MaxStartRows == 2
\* rows of A when the start of a thread may fail
MaxStartFailAt == 8
\* the allocation calls of matr_mult_csr up to the thread array
MaxDispatchRows == 5
\* rows of A at the dispatch: 1..MaxDispatchRows and as many multiples of 40
MaxNnzOffset == 2
\* nnz of A at the dispatch: at most this far from the threshold
MaxProcs == 4
\* processors get_nprocs() reports
MaxLineLen == 3
\* numbers on a line of a matrix file
MaxPtr == 3
\* largest row pointer in a matrix file
MaxSimdLen == 9
\* entries of the row of B the SIMD kernels multiply: one more than 8 lanes
MaxSizingRows == 16
\* rows of the tall operand A of the sizing runs: rows * columns passes the word
MaxSizingCols == 17
\* columns of the wide operand B of the sizing runs
MaxFileCols == 12
\* columns of the widest matrix written to a file: numbers of two digits
WordBits == 8
\* width of the unsigned word standing for uint64_t

WordMod == 2 ^ WordBits

\* ---------------------------------------------------------------------------
\* Program constants
\* ---------------------------------------------------------------------------
HEAP_MEMORY_ERROR == -1
MATRIX_DIMENSION_ERROR == -2
MATRIX_CONVERSION_ERROR == -3
THREAD_START_ERROR == -5
MIN_THREADS == 2
THREAD_COND_MIN_VALUES == 40
THREAD_COND_MIN_ROWS == 4
THREAD_MIN_NNZ == 10000
PREDICT_SIZE == 1
NO_PREDICTION == 0
NUMBER_OF_IMPLEMENTATIONS == 6
SSE_LANES == 4
AVX_LANES == 8

\* content of memory obtained from malloc and not yet written
UNINIT == -1
\* the null pointer
NULL == 0

\* ---------------------------------------------------------------------------
\* Arrays and unsigned arithmetic
\* ---------------------------------------------------------------------------
At(s, i) ==
    s[i + 1]

Put(s, i, v) ==
    [s EXCEPT ![i + 1] = v]

Zeros(n) ==
    [i \in 1..n |-> 0]

Fresh(n) ==
    [i \in 1..n |-> UNINIT]

Prefix(s, n) ==
    [i \in 1..n |-> s[i]]

\* F applied to the value x: names an intermediate result that the text of F
\* uses more than once
Bind(x, F(_)) ==
    F(x)

Min(x, y) ==
    IF x < y THEN x ELSE y

USub(x, y) ==
    (x - y + WordMod) % WordMod

UMul(x, y) ==
    (x * y) % WordMod

UAdd(x, y) ==
    (x + y) % WordMod

\* ---------------------------------------------------------------------------
\* struct Matrix and the matrices the model multiplies
\* ---------------------------------------------------------------------------
Matrix(noRows, noCols, values, colIndices, rowPointers) ==
    [noRows |-> noRows, noCols |-> noCols,
     values |-> values, valuesSize |-> Len(values),
     colIndices |-> colIndices,
     rowPointers |-> rowPointers, rowPointersSize |-> Len(rowPointers)]

Vals ==
    ((0 - MaxVal)..MaxVal) \ {0}

\* the rows a validated file can hold: at most noCols entries per row
\* (_check_row_pointers), every column index below noCols
\* (_check_col_indices), no zero value (_check_values); an entry is
\* <<column, value>>, in any order and with repeated columns allowed
RowSeqs(noCols) ==
    UNION {[1..k -> (0..(noCols - 1)) \X Vals] : k \in 0..noCols}

RECURSIVE FlatRows(_, _)
FlatRows(rows, k) ==
    IF k = 0 THEN <<>> ELSE FlatRows(rows, k - 1) \o rows[k]

MatrixOfRows(noRows, noCols, rows) ==
    LET flat == FlatRows(rows, noRows)
    IN Matrix(noRows, noCols,
              [i \in 1..Len(flat) |-> flat[i][2]],
              [i \in 1..Len(flat) |-> flat[i][1]],
              [i \in 1..(noRows + 1) |-> Len(FlatRows(rows, i - 1))])

CSRSet(noRows, noCols) ==
    {MatrixOfRows(noRows, noCols, rows) : rows \in [1..noRows -> RowSeqs(noCols)]}

\* the matrices of CSRSet with at most maxNnz stored entries
CSRUpTo(noRows, noCols, maxNnz) ==
    {m \in CSRSet(noRows, noCols) : m.valuesSize <= maxNnz}

\* the data-model invariants of a CSR matrix
ValidCSR(m) ==
    /\ m.rowPointersSize = m.noRows + 1
    /\ Len(m.rowPointers) = m.rowPointersSize
    /\ At(m.rowPointers, 0) = 0
    /\ \A r \in 0..(m.noRows - 1) : At(m.rowPointers, r) <= At(m.rowPointers, r + 1)
    /\ At(m.rowPointers, m.noRows) = m.valuesSize
    /\ Len(m.values) >= m.valuesSize
    /\ Len(m.colIndices) >= m.valuesSize
    /\ \A i \in 0..(m.valuesSize - 1) :
          /\ At(m.colIndices, i) \in 0..(m.noCols - 1)
          /\ At(m.values, i) # 0

\* ---------------------------------------------------------------------------
\* The heap: blocks are numbered from 1 in allocation order, a pointer is the
\* number of its block or NULL.  failAt names the allocation call (counted from
\* 1 within one run) that returns NULL; 0 lets every allocation succeed.
\* ---------------------------------------------------------------------------
SIZEOF_FLOAT == 4
SIZEOF_UINT64 == 8
SIZEOF_PTR == 8

EmptyHeap(failAt) ==
    [blocks |-> <<>>, calls |-> 0, failAt |-> failAt, doubleFree |-> FALSE]

\* malloc / calloc: [heap, p]; p = NULL when the call fails
malloc(heap, site) ==
    IF heap.calls + 1 = heap.failAt
    THEN [heap |-> [heap EXCEPT !.calls = @ + 1], p |-> NULL]
    ELSE [heap |-> [heap EXCEPT !.calls = @ + 1,
                                !.blocks = Append(@, [site |-> site, live |-> TRUE])],
          p |-> Len(heap.blocks) + 1]

\* the overflow check of malloc_safe and of calloc: no block when
\* element_size * num_elements does not fit the word
malloc_safe(heap, element_size, num_elements, site) ==
    IF element_size * num_elements >= WordMod
    THEN [heap |-> heap, p |-> NULL]
    ELSE malloc(heap, site)

\* calloc(num_elements, element_size): the library makes the same overflow check
calloc(heap, num_elements, element_size, site) ==
    malloc_safe(heap, element_size, num_elements, site)

free(heap, p) ==
    IF p = NULL THEN heap
    ELSE IF heap.blocks[p].live
         THEN [heap EXCEPT !.blocks[p].live = FALSE]
         ELSE [heap EXCEPT !.doubleFree = TRUE]

LiveBlocks(heap) ==
    {i \in 1..Len(heap.blocks) : heap.blocks[i].live}

\* ---------------------------------------------------------------------------
\* The result handle: the Matrix fields, and for each subarray the pointer
\* held in the struct next to the content of the block it points to
\* ---------------------------------------------------------------------------
EmptyHandle ==
    [noRows |-> UNINIT, noCols |-> UNINIT,
     values |-> <<>>, valuesSize |-> UNINIT,
     colIndices |-> <<>>,
     rowPointers |-> <<>>, rowPointersSize |-> UNINIT,
     pValues |-> NULL, pColIndices |-> NULL, pRowPointers |-> NULL]

\* ---------------------------------------------------------------------------
\* Helper functions of the multiplication
\* ---------------------------------------------------------------------------
\* Mutant of can_multiply: the number of rows of A is not looked at.
can_multiply_AnyRowsOfA(a, b) ==
    /\ a.noCols = b.noRows
    /\ a.noCols >= 1
    /\ b.noCols >= 1 /\ b.noRows >= 1

can_multiply(a, b) ==
    /\ a.noCols = b.noRows
    /\ a.noCols >= 1 /\ a.noRows >= 1
    /\ b.noCols >= 1 /\ b.noRows >= 1

\* numValuesInRowB[rowB]
NumValuesInRowB(b, rowB) ==
    USub(At(b.rowPointers, rowB + 1), At(b.rowPointers, rowB))

\* Mutant of NumValuesInColsA: a column counts once however many values it has.
NumValuesInColsA_Presence(a, column) ==
    IF \E valuesIndex \in 0..(a.valuesSize - 1) :
           At(a.colIndices, valuesIndex) = column
    THEN 1 ELSE 0

\* numValuesInColsA[column]
NumValuesInColsA(a, column) ==
    Cardinality({valuesIndex \in 0..(a.valuesSize - 1) :
                    At(a.colIndices, valuesIndex) = column})

RECURSIVE PredictSum(_, _, _)
PredictSum(a, b, index) ==
    IF index = 0 THEN 0
    ELSE UAdd(PredictSum(a, b, index - 1),
              UMul(NumValuesInRowB(b, index - 1), NumValuesInColsA(a, index - 1)))

\* the value stored in *values_size when both scratch arrays were allocated
PredictedSize(a, b) ==
    Min(PredictSum(a, b, a.noCols), UMul(a.noRows, b.noCols))

\* [heap, ret, values_size]
predict_values_dimension(a, b, heap) ==
    Bind(malloc_safe(heap, SIZEOF_UINT64, a.noCols, "numValuesInColsA"), LAMBDA m1 :
    IF m1.p = NULL
    THEN [heap |-> m1.heap, ret |-> HEAP_MEMORY_ERROR, values_size |-> 0]
    ELSE
    Bind(malloc_safe(m1.heap, SIZEOF_UINT64, b.noRows, "numValuesInRowB"), LAMBDA m2 :
    IF m2.p = NULL
    THEN [heap |-> free(m2.heap, m1.p), ret |-> HEAP_MEMORY_ERROR, values_size |-> 0]
    ELSE [heap |-> free(free(m2.heap, m1.p), m2.p), ret |-> 0,
          values_size |-> PredictedSize(a, b)]))

\* the result handle after the init_matrix_error label
InitMatrixError(result) ==
    [result EXCEPT !.pValues = NULL, !.pColIndices = NULL, !.pRowPointers = NULL,
                   !.values = <<>>, !.colIndices = <<>>, !.rowPointers = <<>>]

\* [heap, ret, result]
init_empty_csr_matrix(a, b, result, predict_flag, heap) ==
    Bind(IF predict_flag # 0
         THEN predict_values_dimension(a, b, heap)
         ELSE [heap |-> heap, ret |-> 0, values_size |-> UMul(a.noRows, b.noCols)],
         LAMBDA pr :
    IF pr.ret = HEAP_MEMORY_ERROR
    THEN [heap |-> pr.heap, ret |-> HEAP_MEMORY_ERROR, result |-> result]
    ELSE
    Bind(calloc(pr.heap, pr.values_size, SIZEOF_FLOAT, "values"), LAMBDA m1 :
    IF m1.p = NULL
    THEN [heap |-> m1.heap, ret |-> HEAP_MEMORY_ERROR,
          result |-> InitMatrixError(result)]
    ELSE
    Bind(calloc(m1.heap, pr.values_size, SIZEOF_UINT64, "colIndices"), LAMBDA m2 :
    IF m2.p = NULL
    THEN [heap |-> free(m2.heap, m1.p), ret |-> HEAP_MEMORY_ERROR,
          result |-> InitMatrixError(result)]
    ELSE
    Bind(malloc_safe(m2.heap, SIZEOF_UINT64, a.noRows + 1, "rowPointers"), LAMBDA m3 :
    IF m3.p = NULL
    THEN [heap |-> free(free(m3.heap, m2.p), m1.p), ret |-> HEAP_MEMORY_ERROR,
          result |-> InitMatrixError(result)]
    ELSE [heap |-> m3.heap, ret |-> 0,
          result |-> [noRows |-> a.noRows, noCols |-> b.noCols,
                      values |-> Zeros(pr.values_size),
                      valuesSize |-> pr.values_size,
                      colIndices |-> Zeros(pr.values_size),
                      rowPointers |-> Fresh(a.noRows + 1),
                      rowPointersSize |-> a.noRows + 1,
                      pValues |-> m1.p, pColIndices |-> m2.p,
                      pRowPointers |-> m3.p]]))))

\* ---------------------------------------------------------------------------
\* Gustavson's algorithm, dense result offsets (multiply_V2)
\* ---------------------------------------------------------------------------
\* rowA * noCols + columnB in uint64_t arithmetic
DenseOffset(rowA, noCols, columnB) ==
    UAdd(UMul(rowA, noCols), columnB)

\* Mutant of Accumulate: the product replaces the slot instead of adding to it.
Accumulate_Overwrite(a, b, res, rowA, indexA, indexB) ==
    LET valueC == At(a.values, indexA) * At(b.values, indexB)
        columnB == At(b.colIndices, indexB)
    IN [res EXCEPT !.values = Put(@, DenseOffset(rowA, res.noCols, columnB), valueC),
                   !.colIndices = Put(@, DenseOffset(rowA, b.noCols, columnB), columnB)]

\* values[rowA * noCols + columnB] += valueC; colIndices[...] = columnB
Accumulate(a, b, res, rowA, indexA, indexB) ==
    LET valueA == At(a.values, indexA)
        valueB == At(b.values, indexB)
        valueC == valueA * valueB
        columnB == At(b.colIndices, indexB)
        vi == DenseOffset(rowA, res.noCols, columnB)
        ci == DenseOffset(rowA, b.noCols, columnB)
    IN [res EXCEPT !.values = Put(@, vi, At(@, vi) + valueC),
                   !.colIndices = Put(@, ci, columnB)]

\* for (indexB = rowBBeg; indexB < rowBEnd; indexB++)
RECURSIVE ScalarLoopB(_, _, _, _, _, _, _)
ScalarLoopB(a, b, res, rowA, indexA, indexB, rowBEnd) ==
    IF indexB >= rowBEnd THEN res
    ELSE ScalarLoopB(a, b, Accumulate(a, b, res, rowA, indexA, indexB),
                     rowA, indexA, indexB + 1, rowBEnd)

RowBBeg(a, b, indexA) ==
    At(b.rowPointers, At(a.colIndices, indexA))

RowBEnd(a, b, indexA) ==
    At(b.rowPointers, At(a.colIndices, indexA) + 1)

\* for (indexA = rowABeg; indexA < rowAEnd; indexA++)
RECURSIVE V2_LoopA(_, _, _, _, _, _)
V2_LoopA(a, b, res, rowA, indexA, rowAEnd) ==
    IF indexA >= rowAEnd THEN res
    ELSE V2_LoopA(a, b,
                  ScalarLoopB(a, b, res, rowA, indexA,
                              RowBBeg(a, b, indexA), RowBEnd(a, b, indexA)),
                  rowA, indexA + 1, rowAEnd)

\* one iteration of the rowA loop, with the row pointer written at its end
V2_Row(a, b, res, rowA) ==
    LET r1 == V2_LoopA(a, b, res, rowA,
                       At(a.rowPointers, rowA), At(a.rowPointers, rowA + 1))
    IN [r1 EXCEPT !.rowPointers = Put(@, rowA + 1, (rowA + 1) * res.noCols)]

RECURSIVE V2_Rows(_, _, _, _)
V2_Rows(a, b, res, rowA) ==
    IF rowA >= a.noRows THEN res
    ELSE V2_Rows(a, b, V2_Row(a, b, res, rowA), rowA + 1)

multiply_V2(a, b, res) ==
    V2_Rows(a, b, [res EXCEPT !.rowPointers = Put(@, 0, 0)], 0)

\* ---------------------------------------------------------------------------
\* Compaction (clean_up_csr)
\* ---------------------------------------------------------------------------
\* the scan of _clean_up_matrix_arrays from row_beg up to the end of the rows;
\* st = [m, non_zero_values, removed, row_beg]
\* Mutant of CleanScan: the test of the value is inverted, the zero entries are
\* the ones kept.
RECURSIVE CleanScan_KeepsZeros(_, _)
CleanScan_KeepsZeros(st, row_end) ==
    IF st.row_beg >= row_end THEN st
    ELSE IF At(st.m.values, st.row_beg) = 0
    THEN CleanScan_KeepsZeros(
             [st EXCEPT
                 !.m.values = Put(@, st.non_zero_values, At(st.m.values, st.row_beg)),
                 !.m.colIndices = Put(@, st.non_zero_values,
                                      At(st.m.colIndices, st.row_beg)),
                 !.non_zero_values = @ + 1,
                 !.row_beg = @ + 1],
             row_end)
    ELSE CleanScan_KeepsZeros([st EXCEPT !.removed = @ + 1, !.row_beg = @ + 1],
                              row_end)

RECURSIVE CleanScan(_, _)
CleanScan(st, row_end) ==
    IF st.row_beg >= row_end THEN st
    ELSE IF At(st.m.values, st.row_beg) # 0
    THEN CleanScan(
             [st EXCEPT
                 !.m.values = Put(@, st.non_zero_values, At(st.m.values, st.row_beg)),
                 !.m.colIndices = Put(@, st.non_zero_values,
                                      At(st.m.colIndices, st.row_beg)),
                 !.non_zero_values = @ + 1,
                 !.row_beg = @ + 1],
             row_end)
    ELSE CleanScan([st EXCEPT !.removed = @ + 1, !.row_beg = @ + 1], row_end)

\* Mutant of CleanRows: removed counts the zero entries of the current row only.
RECURSIVE CleanRows_RemovedPerRow(_, _)
CleanRows_RemovedPerRow(st, row) ==
    IF row >= st.m.rowPointersSize THEN st
    ELSE LET row_end == At(st.m.rowPointers, row)
             s1 == CleanScan([st EXCEPT !.removed = 0], row_end)
         IN CleanRows_RemovedPerRow(
                [s1 EXCEPT !.m.rowPointers =
                               Put(@, row, USub(row_end, s1.removed))],
                row + 1)

RECURSIVE CleanRows(_, _)
CleanRows(st, row) ==
    IF row >= st.m.rowPointersSize THEN st
    ELSE LET row_end == At(st.m.rowPointers, row)
             s1 == CleanScan(st, row_end)
         IN CleanRows([s1 EXCEPT !.m.rowPointers =
                                     Put(@, row, USub(row_end, s1.removed))],
                      row + 1)

\* Mutant of clean_up_matrix_arrays: the row pointers are left as they were.
clean_up_matrix_arrays_KeepRowPointers(matrix) ==
    LET st == CleanRows([m |-> matrix, non_zero_values |-> 0, removed |-> 0,
                         row_beg |-> At(matrix.rowPointers, 0)], 1)
    IN [m |-> [st.m EXCEPT !.rowPointers = matrix.rowPointers],
        non_zero_values |-> st.non_zero_values]

\* [m, non_zero_values]
clean_up_matrix_arrays(matrix) ==
    LET st == CleanRows([m |-> matrix, non_zero_values |-> 0, removed |-> 0,
                         row_beg |-> At(matrix.rowPointers, 0)], 1)
    IN [m |-> st.m, non_zero_values |-> st.non_zero_values]

\* realloc(p, n): TRUE when it fails (returns NULL and leaves the block alone)
ReallocFails(heap) ==
    heap.calls + 1 = heap.failAt

\* the heap after one more call of realloc
Called(heap) ==
    [heap EXCEPT !.calls = @ + 1]

\* [heap, ret, result]
clean_up_csr(matrix, heap) ==
    Bind(clean_up_matrix_arrays(matrix), LAMBDA c :
    Bind(c.non_zero_values, LAMBDA n :
    IF n > 0
    THEN IF n * SIZEOF_FLOAT >= WordMod
         THEN [heap |-> heap, ret |-> HEAP_MEMORY_ERROR, result |-> c.m]
         ELSE IF ReallocFails(heap)
         THEN [heap |-> Called(heap), ret |-> HEAP_MEMORY_ERROR, result |-> c.m]
         ELSE
         Bind([c.m EXCEPT !.values = Prefix(@, n)], LAMBDA shrunk :
         IF n * SIZEOF_UINT64 >= WordMod
         THEN [heap |-> Called(heap), ret |-> HEAP_MEMORY_ERROR, result |-> shrunk]
         ELSE IF ReallocFails(Called(heap))
         THEN [heap |-> Called(Called(heap)), ret |-> HEAP_MEMORY_ERROR,
               result |-> shrunk]
         ELSE [heap |-> Called(Called(heap)), ret |-> 0,
               result |-> [shrunk EXCEPT !.colIndices = Prefix(@, n),
                                         !.valuesSize = n]])
    ELSE [heap |-> heap, ret |-> 0, result |-> [c.m EXCEPT !.valuesSize = n]]))

\* [heap, errno, result]
matr_mult_csr_V2(a, b, result, heap) ==
    IF ~can_multiply(a, b)
    THEN [heap |-> heap, errno |-> MATRIX_DIMENSION_ERROR, result |-> result]
    ELSE
    Bind(init_empty_csr_matrix(a, b, result, NO_PREDICTION, heap), LAMBDA i :
    IF i.ret = HEAP_MEMORY_ERROR
    THEN [heap |-> i.heap, errno |-> HEAP_MEMORY_ERROR, result |-> i.result]
    ELSE
    Bind(clean_up_csr(multiply_V2(a, b, i.result), i.heap), LAMBDA c :
    [heap |-> c.heap, errno |-> c.ret, result |-> c.result]))

\* ---------------------------------------------------------------------------
\* Gustavson's algorithm with size prediction (multiply_V5)
\* st = [res, valuesBegPtr, valuesEndPtr, dropped]; dropped counts the products
\* for which the scan reached valuesSize without storing them
\* ---------------------------------------------------------------------------
\* Mutant of V5_Scan: a slot of the same column is passed over, not merged.
RECURSIVE V5_Scan_NoMerge(_, _, _, _)
V5_Scan_NoMerge(st, i, columnB, valueC) ==
    IF i >= st.res.valuesSize THEN [st EXCEPT !.dropped = @ + 1]
    ELSE IF At(st.res.values, i) = 0
    THEN [st EXCEPT !.res.values = Put(@, i, valueC),
                    !.res.colIndices = Put(@, i, columnB),
                    !.valuesEndPtr = i + 1]
    ELSE V5_Scan_NoMerge(st, i + 1, columnB, valueC)

\* for (i = valuesBegPtr; i < valuesSize; i++) { insert | merge | next }
RECURSIVE V5_Scan(_, _, _, _)
V5_Scan(st, i, columnB, valueC) ==
    IF i >= st.res.valuesSize THEN [st EXCEPT !.dropped = @ + 1]
    ELSE IF At(st.res.values, i) = 0
    THEN [st EXCEPT !.res.values = Put(@, i, valueC),
                    !.res.colIndices = Put(@, i, columnB),
                    !.valuesEndPtr = i + 1]
    ELSE IF At(st.res.colIndices, i) = columnB
    THEN [st EXCEPT !.res.values = Put(@, i, At(@, i) + valueC)]
    ELSE V5_Scan(st, i + 1, columnB, valueC)

RECURSIVE V5_LoopB(_, _, _, _, _, _)
V5_LoopB(a, b, st, indexA, indexB, rowBEnd) ==
    IF indexB >= rowBEnd THEN st
    ELSE V5_LoopB(a, b,
                  V5_Scan(st, st.valuesBegPtr, At(b.colIndices, indexB),
                          At(a.values, indexA) * At(b.values, indexB)),
                  indexA, indexB + 1, rowBEnd)

RECURSIVE V5_LoopA(_, _, _, _, _)
V5_LoopA(a, b, st, indexA, rowAEnd) ==
    IF indexA >= rowAEnd THEN st
    ELSE V5_LoopA(a, b,
                  V5_LoopB(a, b, st, indexA,
                           RowBBeg(a, b, indexA), RowBEnd(a, b, indexA)),
                  indexA + 1, rowAEnd)

V5_Row(a, b, st, rowA) ==
    LET s1 == V5_LoopA(a, b, st,
                       At(a.rowPointers, rowA), At(a.rowPointers, rowA + 1))
    IN [s1 EXCEPT !.res.rowPointers = Put(@, rowA + 1, s1.valuesEndPtr),
                  !.valuesBegPtr = s1.valuesEndPtr]

RECURSIVE V5_Rows(_, _, _, _)
V5_Rows(a, b, st, rowA) ==
    IF rowA >= a.noRows THEN st
    ELSE V5_Rows(a, b, V5_Row(a, b, st, rowA), rowA + 1)

V5_Run(a, b, res) ==
    V5_Rows(a, b,
            [res |-> [res EXCEPT !.rowPointers = Put(@, 0, 0)],
             valuesBegPtr |-> 0, valuesEndPtr |-> 0, dropped |-> 0],
            0)

multiply_V5(a, b, res) ==
    V5_Run(a, b, res).res

\* [heap, errno, result]
matr_mult_csr_V5(a, b, result, heap) ==
    IF ~can_multiply(a, b)
    THEN [heap |-> heap, errno |-> MATRIX_DIMENSION_ERROR, result |-> result]
    ELSE
    Bind(init_empty_csr_matrix(a, b, result, PREDICT_SIZE, heap), LAMBDA i :
    IF i.ret = HEAP_MEMORY_ERROR
    THEN [heap |-> i.heap, errno |-> HEAP_MEMORY_ERROR, result |-> i.result]
    ELSE
    Bind(clean_up_csr(multiply_V5(a, b, i.result), i.heap), LAMBDA c :
    [heap |-> c.heap, errno |-> c.ret, result |-> c.result]))

\* ---------------------------------------------------------------------------
\* Gustavson's algorithm with SIMD batches (multiply_V3: 4 lanes,
\* multiply_V4: 8 lanes)
\* ---------------------------------------------------------------------------
\* for (i = 0; i < lanes; i++) of one batch: the scatter of the lane products
RECURSIVE SimdScatter(_, _, _, _, _, _, _)
SimdScatter(a, b, res, rowA, indexA, indexB, i) ==
    IF i = 0 THEN res
    ELSE SimdScatter(a, b, Accumulate(a, b, res, rowA, indexA, indexB),
                     rowA, indexA, indexB + 1, i - 1)

\* do { batch } while (valuesToMultiply >= lanes); [res, indexB]
RECURSIVE SimdBatches(_, _, _, _, _, _, _, _)
SimdBatches(lanes, a, b, res, rowA, indexA, indexB, valuesToMultiply) ==
    LET r1 == SimdScatter(a, b, res, rowA, indexA, indexB, lanes)
        left == USub(valuesToMultiply, lanes)
    IN IF left >= lanes
       THEN SimdBatches(lanes, a, b, r1, rowA, indexA, indexB + lanes, left)
       ELSE [res |-> r1, indexB |-> indexB + lanes]

\* Mutant of SimdRowB: the scalar loop starts again at the beginning of the
\* row of B.
SimdRowB_TailFromStart(lanes, a, b, res, rowA, indexA) ==
    LET rowBBeg == RowBBeg(a, b, indexA)
        rowBEnd == RowBEnd(a, b, indexA)
        valuesToMultiply == USub(rowBEnd, rowBBeg)
        batched == IF valuesToMultiply >= lanes
                   THEN SimdBatches(lanes, a, b, res, rowA, indexA, rowBBeg,
                                    valuesToMultiply)
                   ELSE [res |-> res, indexB |-> rowBBeg]
    IN ScalarLoopB(a, b, batched.res, rowA, indexA, rowBBeg, rowBEnd)

SimdRowB(lanes, a, b, res, rowA, indexA) ==
    LET rowBBeg == RowBBeg(a, b, indexA)
        rowBEnd == RowBEnd(a, b, indexA)
        valuesToMultiply == USub(rowBEnd, rowBBeg)
        batched == IF valuesToMultiply >= lanes
                   THEN SimdBatches(lanes, a, b, res, rowA, indexA, rowBBeg,
                                    valuesToMultiply)
                   ELSE [res |-> res, indexB |-> rowBBeg]
    IN ScalarLoopB(a, b, batched.res, rowA, indexA, batched.indexB, rowBEnd)

RECURSIVE SimdLoopA(_, _, _, _, _, _, _)
SimdLoopA(lanes, a, b, res, rowA, indexA, rowAEnd) ==
    IF indexA >= rowAEnd THEN res
    ELSE SimdLoopA(lanes, a, b, SimdRowB(lanes, a, b, res, rowA, indexA),
                   rowA, indexA + 1, rowAEnd)

RECURSIVE SimdRows(_, _, _, _, _)
SimdRows(lanes, a, b, res, rowA) ==
    IF rowA >= a.noRows THEN res
    ELSE LET r1 == SimdLoopA(lanes, a, b, res, rowA,
                             At(a.rowPointers, rowA), At(a.rowPointers, rowA + 1))
         IN SimdRows(lanes, a, b,
                     [r1 EXCEPT !.rowPointers =
                                    Put(@, rowA + 1, (rowA + 1) * res.noCols)],
                     rowA + 1)

\* [heap, ret, result]: values_to_add is allocated after rowPointers[0] is set
multiply_simd(lanes, a, b, res, heap) ==
    Bind([res EXCEPT !.rowPointers = Put(@, 0, 0)], LAMBDA r0 :
    Bind(malloc(heap, "values_to_add"), LAMBDA m :
    IF m.p = NULL
    THEN [heap |-> m.heap, ret |-> HEAP_MEMORY_ERROR, result |-> r0]
    ELSE [heap |-> free(m.heap, m.p), ret |-> 0,
          result |-> SimdRows(lanes, a, b, r0, 0)]))

multiply_V3(a, b, res, heap) ==
    multiply_simd(SSE_LANES, a, b, res, heap)

multiply_V4(a, b, res, heap) ==
    multiply_simd(AVX_LANES, a, b, res, heap)

\* the body shared by matr_mult_csr_V3 and the AVX branch of matr_mult_csr_V4
MatrMultSimd(lanes, a, b, result, heap) ==
    IF ~can_multiply(a, b)
    THEN [heap |-> heap, errno |-> MATRIX_DIMENSION_ERROR, result |-> result]
    ELSE
    Bind(init_empty_csr_matrix(a, b, result, NO_PREDICTION, heap), LAMBDA i :
    IF i.ret = HEAP_MEMORY_ERROR
    THEN [heap |-> i.heap, errno |-> HEAP_MEMORY_ERROR, result |-> i.result]
    ELSE
    Bind(multiply_simd(lanes, a, b, i.result, i.heap), LAMBDA m :
    IF m.ret = HEAP_MEMORY_ERROR
    THEN [heap |-> m.heap, errno |-> HEAP_MEMORY_ERROR, result |-> m.result]
    ELSE
    Bind(clean_up_csr(m.result, m.heap), LAMBDA c :
    [heap |-> c.heap, errno |-> c.ret, result |-> c.result])))

matr_mult_csr_V3(a, b, result, heap) ==
    MatrMultSimd(SSE_LANES, a, b, result, heap)

\* ---------------------------------------------------------------------------
\* Dense conversion (csr_to_ordinary, ordinary_to_csr) and the dense kernel
\* A dense matrix is a sequence of rows, a row a sequence of cells; both are
\* read with At.
\* ---------------------------------------------------------------------------
\* for (i = 0; i < count; i++) calloc(noCols, sizeof(float)), the rows already
\* allocated and the row array `base` freed when one call fails;
\* [heap, ok, rows] with rows the pointers of the row blocks
RECURSIVE AllocRows(_, _, _, _, _)
AllocRows(heap, base, count, noCols, rows) ==
    IF Len(rows) = count THEN [heap |-> heap, ok |-> TRUE, rows |-> rows]
    ELSE LET m == calloc(heap, noCols, SIZEOF_FLOAT, "row")
             FreeRows[j \in 0..Len(rows)] ==
                 IF j = 0 THEN m.heap ELSE free(FreeRows[j - 1], rows[j])
         IN IF m.p = NULL
            THEN [heap |-> free(FreeRows[Len(rows)], base), ok |-> FALSE,
                  rows |-> <<>>]
            ELSE AllocRows(m.heap, base, count, noCols, Append(rows, m.p))

\* free(ord[i]) for every row, then free(ord)
FreeOrdinary(heap, ord) ==
    LET FreeRows[j \in 0..Len(ord.rows)] ==
            IF j = 0 THEN heap ELSE free(FreeRows[j - 1], ord.rows[j])
    IN free(FreeRows[Len(ord.rows)], ord.base)

\* ordinary[i][col] = csr->values[j] for j from rowPointers[i] up
RECURSIVE ScatterRow(_, _, _, _)
ScatterRow(csr, row, j, row_end) ==
    IF j >= row_end THEN row
    ELSE ScatterRow(csr, Put(row, At(csr.colIndices, j), At(csr.values, j)),
                    j + 1, row_end)

\* Mutant of DenseOf: every row is scattered from the start of the arrays.
DenseOf_FromFirstEntry(csr) ==
    [i \in 1..csr.noRows |->
        ScatterRow(csr, Zeros(csr.noCols),
                   At(csr.rowPointers, 0), At(csr.rowPointers, i))]

DenseOf(csr) ==
    [i \in 1..csr.noRows |->
        ScatterRow(csr, Zeros(csr.noCols),
                   At(csr.rowPointers, i - 1), At(csr.rowPointers, i))]

\* the NULL float**
NoOrdinary ==
    [base |-> NULL, rows |-> <<>>, cells |-> <<>>]

\* [heap, ok, ord] with ord = [base, rows, cells]; ok = FALSE is the NULL return
csr_to_ordinary(csr, heap) ==
    Bind(malloc_safe(heap, csr.noRows, SIZEOF_PTR, "ordinary"), LAMBDA m :
    IF m.p = NULL THEN [heap |-> m.heap, ok |-> FALSE, ord |-> NoOrdinary]
    ELSE
    Bind(AllocRows(m.heap, m.p, csr.noRows, csr.noCols, <<>>), LAMBDA r :
    IF ~r.ok THEN [heap |-> r.heap, ok |-> FALSE, ord |-> NoOrdinary]
    ELSE [heap |-> r.heap, ok |-> TRUE,
          ord |-> [base |-> m.p, rows |-> r.rows, cells |-> DenseOf(csr)]]))

\* Mutant of OrdScanRow: the insertion counter is stored as the column index.
RECURSIVE OrdScanRow_ColIsCounter(_, _, _, _, _)
OrdScanRow_ColIsCounter(cells, i, j, noCols, st) ==
    IF j >= noCols THEN st
    ELSE LET v == At(At(cells, i), j)
         IN OrdScanRow_ColIsCounter(cells, i, j + 1, noCols,
                       IF v # 0
                       THEN [st EXCEPT !.values = Put(@, st.c, v),
                                       !.colIndices = Put(@, st.c, st.c),
                                       !.c = @ + 1]
                       ELSE st)

\* for (j = 0; j < noCols; j++) of the second scan of ordinary_to_csr;
\* st = [values, colIndices, rowPointers, c]
RECURSIVE OrdScanRow(_, _, _, _, _)
OrdScanRow(cells, i, j, noCols, st) ==
    IF j >= noCols THEN st
    ELSE LET v == At(At(cells, i), j)
         IN OrdScanRow(cells, i, j + 1, noCols,
                       IF v # 0
                       THEN [st EXCEPT !.values = Put(@, st.c, v),
                                       !.colIndices = Put(@, st.c, j),
                                       !.c = @ + 1]
                       ELSE st)

\* for (i = 0; i < noRows; i++) { row scan; rowPointers[i + 1] = c; }
RECURSIVE OrdScan(_, _, _, _, _)
OrdScan(cells, noRows, noCols, i, st) ==
    IF i >= noRows THEN st
    ELSE LET s1 == OrdScanRow(cells, i, 0, noCols, st)
         IN OrdScan(cells, noRows, noCols, i + 1,
                    [s1 EXCEPT !.rowPointers = Put(@, i + 1, s1.c)])

\* the first scan: no_non_zero
NoNonZero(cells, noRows, noCols) ==
    Cardinality({ij \in (0..(noRows - 1)) \X (0..(noCols - 1)) :
                    At(At(cells, ij[1]), ij[2]) # 0})

\* the NULL Matrix* of a failed conversion
NoCsr(heap) ==
    [heap |-> heap, ok |-> FALSE, csr |-> EmptyHandle, pCsr |-> NULL]

\* [heap, ok, csr, pCsr]; ok = FALSE is the NULL return
ordinary_to_csr(noRows, noCols, cells, heap) ==
    Bind(NoNonZero(cells, noRows, noCols), LAMBDA no_non_zero :
    Bind(malloc(heap, "csr"), LAMBDA m0 :
    IF m0.p = NULL THEN NoCsr(m0.heap)
    ELSE
    Bind(malloc_safe(m0.heap, SIZEOF_FLOAT, no_non_zero, "values"), LAMBDA m1 :
    IF m1.p = NULL THEN NoCsr(m1.heap)
    ELSE
    Bind(malloc_safe(m1.heap, SIZEOF_UINT64, no_non_zero, "colIndices"), LAMBDA m2 :
    IF m2.p = NULL THEN NoCsr(free(m2.heap, m1.p))
    ELSE
    Bind(malloc_safe(m2.heap, SIZEOF_UINT64, noRows + 1, "rowPointers"), LAMBDA m3 :
    IF m3.p = NULL THEN NoCsr(free(free(m3.heap, m1.p), m2.p))
    ELSE
    Bind(OrdScan(cells, noRows, noCols, 0,
                 [values |-> Fresh(no_non_zero),
                  colIndices |-> Fresh(no_non_zero),
                  rowPointers |-> Put(Fresh(noRows + 1), 0, 0),
                  c |-> 0]), LAMBDA st :
    [heap |-> m3.heap, ok |-> TRUE, pCsr |-> m0.p,
     csr |-> [noRows |-> noRows, noCols |-> noCols,
              values |-> st.values, valuesSize |-> no_non_zero,
              colIndices |-> st.colIndices,
              rowPointers |-> st.rowPointers,
              rowPointersSize |-> noRows + 1,
              pValues |-> m1.p, pColIndices |-> m2.p,
              pRowPointers |-> m3.p]]))))))

\* ord_result[i][j] += ord_a[i][k] * ord_b[k][j] for k = 0 .. noCols-1
RECURSIVE DenseCell(_, _, _, _, _)
DenseCell(ord_a, ord_b, i, j, k) ==
    IF k = 0 THEN 0
    ELSE DenseCell(ord_a, ord_b, i, j, k - 1)
         + At(At(ord_a, i), k - 1) * At(At(ord_b, k - 1), j)

DenseMultiply(ord_a, ord_b, noRowsA, noColsA, noColsB) ==
    [i \in 1..noRowsA |->
        [j \in 1..noColsB |-> DenseCell(ord_a, ord_b, i - 1, j - 1, noColsA)]]

\* [heap, errno, result]
matr_mult_csr_V1(a, b, result, heap) ==
    IF ~can_multiply(a, b)
    THEN [heap |-> heap, errno |-> MATRIX_DIMENSION_ERROR, result |-> result]
    ELSE
    Bind(csr_to_ordinary(a, heap), LAMBDA ca :
    IF ~ca.ok
    THEN [heap |-> ca.heap, errno |-> MATRIX_CONVERSION_ERROR, result |-> result]
    ELSE
    Bind(csr_to_ordinary(b, ca.heap), LAMBDA cb :
    IF ~cb.ok
    THEN [heap |-> FreeOrdinary(cb.heap, ca.ord),
          errno |-> MATRIX_CONVERSION_ERROR, result |-> result]
    ELSE
    Bind(malloc_safe(cb.heap, a.noRows, SIZEOF_PTR, "ord_result"), LAMBDA mr :
    IF mr.p = NULL
    THEN [heap |-> FreeOrdinary(FreeOrdinary(mr.heap, ca.ord), cb.ord),
          errno |-> HEAP_MEMORY_ERROR, result |-> result]
    ELSE
    Bind(AllocRows(mr.heap, mr.p, a.noRows, b.noCols, <<>>), LAMBDA rr :
    IF ~rr.ok
    THEN [heap |-> FreeOrdinary(FreeOrdinary(rr.heap, ca.ord), cb.ord),
          errno |-> HEAP_MEMORY_ERROR, result |-> result]
    ELSE
    Bind([base |-> mr.p, rows |-> rr.rows,
          cells |-> DenseMultiply(ca.ord.cells, cb.ord.cells,
                                  a.noRows, a.noCols, b.noCols)], LAMBDA ord_result :
    Bind(ordinary_to_csr(a.noRows, b.noCols, ord_result.cells,
                         FreeOrdinary(FreeOrdinary(rr.heap, ca.ord), cb.ord)),
         LAMBDA tmp :
    IF ~tmp.ok
    THEN [heap |-> FreeOrdinary(tmp.heap, ord_result),
          errno |-> MATRIX_CONVERSION_ERROR, result |-> result]
    ELSE [heap |-> free(FreeOrdinary(tmp.heap, ord_result), tmp.pCsr),
          errno |-> 0, result |-> tmp.csr]))))))

\* avx is the answer of __builtin_cpu_supports("avx")
matr_mult_csr_V4(a, b, result, heap, avx) ==
    IF ~avx THEN matr_mult_csr_V1(a, b, result, heap)
    ELSE MatrMultSimd(AVX_LANES, a, b, result, heap)

\* ---------------------------------------------------------------------------
\* The multithreaded kernel: start_threads and multiply_main_implementation
\* ---------------------------------------------------------------------------
\* start_row and end_row of the descriptors built by the loop of start_threads:
\* desc = the descriptors of workers 0 .. i-1, prev = the running boundary
RECURSIVE BuildArgs(_, _, _, _, _, _)
BuildArgs(thread_count, step, rest, i, prev, desc) ==
    IF i >= thread_count THEN desc
    ELSE LET next == IF i < rest THEN prev + step + 1 ELSE prev + step
         IN BuildArgs(thread_count, step, rest, i + 1, next,
                      Append(desc, [start_row |-> prev, end_row |-> next]))

\* Mutant of Descriptors: every worker is given one row more than its share.
Descriptors_OneRowMore(noRows, thread_count) ==
    LET step == noRows \div thread_count
        rest == noRows % thread_count
        desc == BuildArgs(thread_count, step + 1, rest, 0, 0, <<>>)
    IN [desc EXCEPT ![thread_count].end_row = noRows]

\* the descriptors after (*arguments)[thread_count-1]->end_row = noRows
Descriptors(noRows, thread_count) ==
    LET step == noRows \div thread_count
        rest == noRows % thread_count
        desc == BuildArgs(thread_count, step, rest, 0, 0, <<>>)
    IN [desc EXCEPT ![thread_count].end_row = noRows]

\* malloc(sizeof(struct MultiplyArg)) for worker i = Len(ps), the descriptors
\* already allocated and the array freed when one call fails; [heap, ok, ps]
RECURSIVE AllocArgs(_, _, _, _)
AllocArgs(heap, base, thread_count, ps) ==
    IF Len(ps) = thread_count THEN [heap |-> heap, ok |-> TRUE, ps |-> ps]
    ELSE LET m == malloc(heap, "arg")
             FreeArgs[j \in 0..Len(ps)] ==
                 IF j = 0 THEN m.heap ELSE free(FreeArgs[j - 1], ps[j])
         IN IF m.p = NULL
            THEN [heap |-> free(FreeArgs[Len(ps)], base), ok |-> FALSE, ps |-> <<>>]
            ELSE AllocArgs(m.heap, base, thread_count, Append(ps, m.p))

\* start_threads up to the loop that creates the threads;
\* [heap, ret, arguments, pArguments, pThreads]
start_threads_setup(thread_count, a, heap) ==
    LET none == [heap |-> heap, ret |-> 0, arguments |-> <<>>,
                 pArguments |-> NULL, pThreads |-> NULL]
        m0 == malloc(heap, "arguments")
        as == AllocArgs(m0.heap, m0.p, thread_count, <<>>)
        mt == malloc(as.heap, "threads")
        desc == Descriptors(a.noRows, thread_count)
        args == [i \in 1..thread_count |->
                    [start_row |-> desc[i].start_row, end_row |-> desc[i].end_row,
                     p |-> as.ps[i]]]
    IN IF thread_count = 0 THEN [none EXCEPT !.ret = THREAD_START_ERROR]
       ELSE IF m0.p = NULL
       THEN [none EXCEPT !.heap = m0.heap, !.ret = HEAP_MEMORY_ERROR]
       ELSE IF ~as.ok
       THEN [none EXCEPT !.heap = as.heap, !.ret = HEAP_MEMORY_ERROR]
       ELSE IF mt.p = NULL
       THEN [heap |-> mt.heap, ret |-> HEAP_MEMORY_ERROR, arguments |-> args,
             pArguments |-> m0.p, pThreads |-> NULL]
       ELSE [heap |-> mt.heap, ret |-> 0, arguments |-> args,
             pArguments |-> m0.p, pThreads |-> mt.p]

\* the pairs <<indexA, indexB>> visited by the two inner loops of
\* multiply_main_implementation in row rowA, in the order of the loops
RECURSIVE PairsOfB(_, _, _)
PairsOfB(indexA, indexB, rowBEnd) ==
    IF indexB >= rowBEnd THEN <<>>
    ELSE <<(<<indexA, indexB>>)>> \o PairsOfB(indexA, indexB + 1, rowBEnd)

RECURSIVE PairsOfA(_, _, _, _)
PairsOfA(a, b, indexA, rowAEnd) ==
    IF indexA >= rowAEnd THEN <<>>
    ELSE PairsOfB(indexA, RowBBeg(a, b, indexA), RowBEnd(a, b, indexA))
         \o PairsOfA(a, b, indexA + 1, rowAEnd)

RowPairs(a, b, rowA) ==
    PairsOfA(a, b, At(a.rowPointers, rowA), At(a.rowPointers, rowA + 1))

\* Mutant of FirstRow: every worker starts at row 0.
FirstRow_Zero(arg) ==
    0

\* the first row a worker iterates over
FirstRow(arg) ==
    arg.start_row

\* Mutant of ThreadCount: the count is not raised to MIN_THREADS.
ThreadCount_NoMinimum(noRows, available_threads) ==
    LET row_weight == noRows \div THREAD_COND_MIN_VALUES
        elem_weight == noRows \div THREAD_COND_MIN_ROWS
        tmp_min == IF row_weight < elem_weight THEN row_weight ELSE elem_weight
    IN IF tmp_min < available_threads THEN tmp_min ELSE available_threads

\* uint64_t thread_count of matr_mult_csr for available_threads = get_nprocs()
ThreadCount(noRows, available_threads) ==
    LET row_weight == noRows \div THREAD_COND_MIN_VALUES
        elem_weight == noRows \div THREAD_COND_MIN_ROWS
        tmp_min == IF row_weight < elem_weight THEN row_weight ELSE elem_weight
        thread_count == IF tmp_min < available_threads THEN tmp_min
                        ELSE available_threads
    IN IF thread_count < MIN_THREADS THEN MIN_THREADS ELSE thread_count

\* ---------------------------------------------------------------------------
\* The comparison of two matrices (equals, sort_matrix).  A call either
\* returns a value or ends in a fault of the process.
\* ---------------------------------------------------------------------------
\* a NULL Matrix*
NullMatrix ==
    [null |-> TRUE]

IsNull(m) ==
    "null" \in DOMAIN m

NotCalled ==
    [returned |-> FALSE, fault |-> FALSE, value |-> 0]

Returned(v) ==
    [returned |-> TRUE, fault |-> FALSE, value |-> v]

Fault ==
    [returned |-> FALSE, fault |-> TRUE, value |-> 0]

\* cols[i] and cols[j] exchanged when both indices are below size
swap_cols(cols, size, i, j) ==
    IF i < size /\ j < size
    THEN Put(Put(cols, j, At(cols, i)), i, At(cols, j))
    ELSE cols

\* Mutant of swap_values: the values stay where they are.
swap_values_Nothing(values, size, i, j) ==
    values

swap_values(values, size, i, j) ==
    IF i < size /\ j < size
    THEN Put(Put(values, j, At(values, i)), i, At(values, j))
    ELSE values

\* st = [m, oob, fault]: the matrix being sorted, whether colIndices was read
\* below index 0, whether it was read beyond its last element
Unsorted(m) ==
    [m |-> m, oob |-> FALSE, fault |-> FALSE]

\* for (j = i - 1; j >= beg; j--): j is unsigned, so below 0 it is the largest
\* word, and colIndices[j] is then a read in front of the array.  Whatever is
\* read there, no swap follows (j is not below size): the loop ends or the
\* read faults.
RECURSIVE SortInner(_, _, _, _, _)
SortInner(st, beg, col, currentPositionOfValue, j) ==
    IF j < beg THEN st
    ELSE IF j >= st.m.valuesSize THEN [st EXCEPT !.oob = TRUE]
    ELSE IF col < At(st.m.colIndices, j)
    THEN SortInner(
             [st EXCEPT
                 !.m.colIndices = swap_cols(@, st.m.valuesSize,
                                            currentPositionOfValue, j),
                 !.m.values = swap_values(@, st.m.valuesSize,
                                          currentPositionOfValue, j)],
             beg, col, j, USub(j, 1))
    ELSE st

\* for (i = beg; i <= end; i++): with end the largest word the loop runs past
\* the last element of colIndices and on through the address space
RECURSIVE SortOuter(_, _, _, _)
SortOuter(st, beg, end, i) ==
    IF i > end THEN st
    ELSE IF i >= st.m.valuesSize THEN [st EXCEPT !.fault = TRUE]
    ELSE SortOuter(SortInner(st, beg, At(st.m.colIndices, i), i, USub(i, 1)),
                   beg, end, i + 1)

sort_matrix(st, beg, end) ==
    SortOuter(st, beg, end, beg)

\* rowBeg = rowPointers[i], rowEnd = rowPointers[i + 1] - 1
SortRow(st, i) ==
    sort_matrix(st, At(st.m.rowPointers, i), USub(At(st.m.rowPointers, i + 1), 1))

\* the first loop of equals; [a, b]
RECURSIVE SortRows(_, _, _)
SortRows(sa, sb, i) ==
    IF i >= USub(sa.m.rowPointersSize, 1) \/ sa.fault \/ sb.fault
    THEN [a |-> sa, b |-> sb]
    ELSE Bind(SortRow(sa, i), LAMBDA sa1 :
         IF sa1.fault THEN [a |-> sa1, b |-> sb]
         ELSE SortRows(sa1, SortRow(sb, i), i + 1))

\* the second and third loop of equals
SameArrays(a, b) ==
    /\ \A i \in 0..(a.valuesSize - 1) :
          /\ At(a.colIndices, i) = At(b.colIndices, i)
          /\ At(a.values, i) = At(b.values, i)
    /\ \A i \in 0..(a.rowPointersSize - 1) :
          At(a.rowPointers, i) = At(b.rowPointers, i)

\* [outcomes, a, b]: what the call can come to, and the two matrices after it
equals(matrix_a, matrix_b) ==
    IF IsNull(matrix_a) \/ IsNull(matrix_b)
    THEN [outcomes |-> {Returned(0)}, a |-> matrix_a, b |-> matrix_b]
    ELSE IF \/ matrix_a.noCols # matrix_b.noCols
            \/ matrix_a.noRows # matrix_b.noRows
            \/ matrix_a.valuesSize # matrix_b.valuesSize
            \/ matrix_a.rowPointersSize # matrix_b.rowPointersSize
    THEN [outcomes |-> {Returned(0)}, a |-> matrix_a, b |-> matrix_b]
    ELSE
    Bind(SortRows(Unsorted(matrix_a), Unsorted(matrix_b), 0), LAMBDA s :
    [outcomes |->
         IF s.a.fault \/ s.b.fault THEN {Fault}
         ELSE {Returned(IF SameArrays(s.a.m, s.b.m) THEN 1 ELSE 0)}
              \cup (IF s.a.oob \/ s.b.oob THEN {Fault} ELSE {}),
     a |-> s.a.m, b |-> s.b.m])

\* ---------------------------------------------------------------------------
\* The dispatcher of identifier 0 (matr_mult_csr)
\* ---------------------------------------------------------------------------
\* FALSE: the call is handed to matr_mult_csr_V5
\* Mutant of UsesThreads: both conditions are needed to fall back to V5.
UsesThreads_BothConditions(a) ==
    ~(a.valuesSize < THREAD_MIN_NNZ /\ a.noRows < MIN_THREADS)

UsesThreads(a) ==
    ~(a.valuesSize < THREAD_MIN_NNZ \/ a.noRows < MIN_THREADS)

\* ---------------------------------------------------------------------------
\* State
\* ---------------------------------------------------------------------------
VARIABLES
    A,        \* matrix_a of the call
    B,        \* matrix_b of the call
    result,   \* the result handle
    heap,     \* blocks allocated since the call began
    errno,    \* errno as the caller reads it after the call
    impl,     \* the algorithm identifier of the call, -1 before it
    avx,      \* answer of __builtin_cpu_supports("avx")
    pc,       \* where the calling thread is: "ready", "create", "join", "done"
    thread_count,  \* thread_count passed to start_threads, 0 outside of it
    arguments,     \* the MultiplyArg descriptors, one per worker
    tmem,          \* the pointers *arguments and *threads of start_threads
    workers,       \* per worker: pc, current row, position in the row
    writes,        \* the stores of the workers: <<worker, array, index>>
    ret,           \* what a call of equals came to: a return value or a fault
    sorted,        \* the two arguments of equals as the call leaves them
    dense,         \* the float** handed to ordinary_to_csr
    ordinary,      \* the float** csr_to_ordinary returned
    measure_flag,     \* main: the time of the multiplication is measured
    number_measures,  \* main: how often the multiplication is run
    tmp_result,       \* main: the handle of the runs after the first
    v5,       \* multiply_V5: rowA, the product it is at, valuesBegPtr, valuesEndPtr
    available_threads,  \* what get_nprocs() returns
    matrix_file  \* the characters of the matrix file

vars == <<A, B, result, heap, errno, impl, avx, pc,
          thread_count, arguments, tmem, workers, writes,
          ret, sorted, dense, ordinary,
          measure_flag, number_measures, tmp_result, v5,
          available_threads, matrix_file>>

mainVars == <<measure_flag, number_measures, tmp_result>>

NoMain ==
    /\ measure_flag = FALSE
    /\ number_measures = 1
    /\ tmp_result = EmptyHandle

\* no matrix file written
NoFile ==
    matrix_file = <<>>

\* a machine with one processor
OneProc ==
    available_threads = 1

\* multiply_V5 has not begun
NoV5 ==
    v5 = [rowA |-> 0, k |-> 1, valuesBegPtr |-> 0, valuesEndPtr |-> 0, dropped |-> 0]

testVars == <<ret, sorted, dense, ordinary>>

NoTest ==
    /\ ret = NotCalled
    /\ sorted = <<>>
    /\ dense = <<>>
    /\ ordinary = <<>>

threadVars == <<thread_count, arguments, tmem, workers, writes>>

NoThreads ==
    /\ thread_count = 0
    /\ arguments = <<>>
    /\ tmem = [pArguments |-> NULL, pThreads |-> NULL]
    /\ workers = <<>>
    /\ writes = {}

\* the operands: every validated matrix within the bounds, and the matrices
\* with a zero dimension that can_multiply rejects
Dims(maxR, maxC) ==
    (0..maxR) \X (0..maxC)

Operands(maxR, maxC, maxNnz) ==
    UNION {CSRUpTo(d[1], d[2], maxNnz) : d \in Dims(maxR, maxC)}

OperandsA ==
    Operands(MaxRows, MaxInner, MaxNnzA)

OperandsB ==
    Operands(MaxInner, MaxCols, MaxInner * MaxCols)

Init ==
    /\ A \in OperandsA
    /\ B \in OperandsB
    /\ result = EmptyHandle
    /\ heap = EmptyHeap(0)
    /\ errno = 0
    /\ impl = -1
    /\ avx = FALSE
    /\ pc = "ready"
    /\ NoThreads
    /\ NoTest
    /\ NoMain
    /\ NoV5
    /\ OneProc
    /\ NoFile

Return(i, call) ==
    /\ result' = call.result
    /\ heap' = call.heap
    /\ errno' = call.errno
    /\ impl' = i
    /\ pc' = "done"
    /\ UNCHANGED <<A, B>>
    /\ UNCHANGED threadVars
    /\ UNCHANGED testVars
    /\ UNCHANGED mainVars
    /\ UNCHANGED v5
    /\ UNCHANGED available_threads
    /\ UNCHANGED matrix_file

\* identifier 0 on a matrix below the threading thresholds
Call_V0 ==
    /\ pc = "ready"
    /\ ~UsesThreads(A)
    /\ Return(0, matr_mult_csr_V5(A, B, result, heap))
    /\ UNCHANGED avx

Call_V1 ==
    /\ pc = "ready"
    /\ Return(1, matr_mult_csr_V1(A, B, result, heap))
    /\ UNCHANGED avx

Call_V2 ==
    /\ pc = "ready"
    /\ Return(2, matr_mult_csr_V2(A, B, result, heap))
    /\ UNCHANGED avx

Call_V3 ==
    /\ pc = "ready"
    /\ Return(3, matr_mult_csr_V3(A, B, result, heap))
    /\ UNCHANGED avx

Call_V4 ==
    /\ pc = "ready"
    /\ \E cpu \in BOOLEAN :
          /\ avx' = cpu
          /\ Return(4, matr_mult_csr_V4(A, B, result, heap, cpu))

Call_V5 ==
    /\ pc = "ready"
    /\ Return(5, matr_mult_csr_V5(A, B, result, heap))
    /\ UNCHANGED avx

Next ==
    \/ Call_V0
    \/ Call_V1
    \/ Call_V2
    \/ Call_V3
    \/ Call_V4
    \/ Call_V5

Spec == Init /\ [][Next]_vars

\* ---------------------------------------------------------------------------
\* What the claims speak about
\* ---------------------------------------------------------------------------
RowRange(m, r) ==
    At(m.rowPointers, r)..(At(m.rowPointers, r + 1) - 1)

\* the indices of row r that store column c
Slots(m, r, c) ==
    {i \in RowRange(m, r) : At(m.colIndices, i) = c}

DistinctCols(m) ==
    \A r \in 0..(m.noRows - 1) : \A c \in 0..(m.noCols - 1) :
        Cardinality(Slots(m, r, c)) <= 1

RECURSIVE SumOver(_, _)
SumOver(S, f) ==
    IF S = {} THEN 0
    ELSE LET x == CHOOSE y \in S : TRUE
         IN f[x] + SumOver(S \ {x}, f)

\* the mathematical entry M[r, c] of a matrix whose rows store a column once
Entry(m, r, c) ==
    SumOver(Slots(m, r, c), [i \in Slots(m, r, c) |-> At(m.values, i)])

\* (A * B)[r, c]
ProductEntry(a, b, r, c) ==
    SumOver(0..(a.noCols - 1),
            [k \in 0..(a.noCols - 1) |-> Entry(a, r, k) * Entry(b, k, c)])

\* the row pointers delimit the rows of the stored entries
RowsDelimited(m) ==
    /\ m.rowPointersSize = m.noRows + 1
    /\ At(m.rowPointers, 0) = 0
    /\ \A r \in 0..(m.noRows - 1) : At(m.rowPointers, r) <= At(m.rowPointers, r + 1)
    /\ At(m.rowPointers, m.noRows) = m.valuesSize

\* how often the pair <<c, v>> is stored in row r
PairCount(m, r, c, v) ==
    Cardinality({i \in RowRange(m, r) :
                    At(m.colIndices, i) = c /\ At(m.values, i) = v})

\* same dimensions, nnz, row pointers and per-row pairs up to order
StructEq(m1, m2) ==
    /\ m1.noRows = m2.noRows
    /\ m1.noCols = m2.noCols
    /\ m1.valuesSize = m2.valuesSize
    /\ m1.rowPointersSize = m2.rowPointersSize
    /\ \A r \in 0..(m1.rowPointersSize - 1) :
          At(m1.rowPointers, r) = At(m2.rowPointers, r)
    /\ \A r \in 0..(m1.noRows - 1) : \A i \in RowRange(m1, r) :
          PairCount(m1, r, At(m1.colIndices, i), At(m1.values, i))
              = PairCount(m2, r, At(m1.colIndices, i), At(m1.values, i))

\* the call of identifier i on the operands of the state, from the state
\* before the call
CallOf(i, cpu) ==
    CASE i = 0 -> matr_mult_csr_V5(A, B, EmptyHandle, EmptyHeap(0))
      [] i = 1 -> matr_mult_csr_V1(A, B, EmptyHandle, EmptyHeap(0))
      [] i = 2 -> matr_mult_csr_V2(A, B, EmptyHandle, EmptyHeap(0))
      [] i = 3 -> matr_mult_csr_V3(A, B, EmptyHandle, EmptyHeap(0))
      [] i = 4 -> matr_mult_csr_V4(A, B, EmptyHandle, EmptyHeap(0), cpu)
      [] i = 5 -> matr_mult_csr_V5(A, B, EmptyHandle, EmptyHeap(0))

Succeeded ==
    pc = "done" /\ errno = 0

\* ---------------------------------------------------------------------------
\* C1: for every valid multipliable pair, the results of the six identifiers
\* are pairwise structurally equal: the result of the call just made equals
\* the result every other identifier produces on the same operands.  The
\* operands are further restricted to rows that store each column once.
\* ---------------------------------------------------------------------------
C1_CrossKernelEquivalence ==
    (Succeeded /\ ValidCSR(A) /\ ValidCSR(B)
               /\ DistinctCols(A) /\ DistinctCols(B)) =>
        \A j \in 0..(NUMBER_OF_IMPLEMENTATIONS - 1) : \A cpu \in BOOLEAN :
            CallOf(j, cpu).errno = 0 => StructEq(result, CallOf(j, cpu).result)

\* ---------------------------------------------------------------------------
\* C2: after matr_mult_csr_V2 on operands whose rows have pairwise distinct
\* columns, row r of the result stores column c exactly once with the value
\* sum_k A[r,k]*B[k,c] when that sum is not zero, and not at all when it is.
\* ---------------------------------------------------------------------------
C2_V2MatchesProduct ==
    (Succeeded /\ impl = 2 /\ DistinctCols(A) /\ DistinctCols(B)) =>
        /\ RowsDelimited(result)
        /\ \A r \in 0..(A.noRows - 1) : \A c \in 0..(B.noCols - 1) :
              LET p == ProductEntry(A, B, r, c)
                  S == Slots(result, r, c)
              IN IF p = 0 THEN S = {}
                 ELSE /\ Cardinality(S) = 1
                      /\ \A i \in S : At(result.values, i) = p

\* a V2 result with a cell that sums two products, and a cell that cancels
C2_Witness ==
    /\ Succeeded /\ impl = 2 /\ DistinctCols(A) /\ DistinctCols(B)
    /\ \E r \in 0..(A.noRows - 1) : \E c \in 0..(B.noCols - 1) :
          /\ ProductEntry(A, B, r, c) = 2
          /\ Cardinality({k \in 0..(A.noCols - 1) :
                             Entry(A, r, k) * Entry(B, k, c) # 0}) = 2

\* ---------------------------------------------------------------------------
\* C3: on operands that cannot be multiplied (inner dimensions differ, or a
\* zero row or column count) every identifier reports MATRIX_DIMENSION_ERROR,
\* has made no allocation call, and leaves the result handle as passed.
\* ---------------------------------------------------------------------------
Incompatible(a, b) ==
    \/ a.noCols # b.noRows
    \/ a.noRows = 0 \/ a.noCols = 0
    \/ b.noRows = 0 \/ b.noCols = 0

C3_IncompatibleNoAllocation ==
    (pc = "done" /\ Incompatible(A, B)) =>
        /\ errno = MATRIX_DIMENSION_ERROR
        /\ heap.calls = 0
        /\ heap.blocks = <<>>
        /\ result = EmptyHandle

\* a call of the AVX kernel on a pair with a zero inner dimension
C3_Witness ==
    /\ pc = "done" /\ impl = 4 /\ avx
    /\ A.noCols = 0 /\ B.noRows = 0 /\ A.noRows > 0 /\ B.noCols > 0
    /\ errno = MATRIX_DIMENSION_ERROR

\* ---------------------------------------------------------------------------
\* C4: a matrix returned by a successful multiplication satisfies the CSR
\* invariants: rowPointers[0] = 0, rowPointers non-decreasing,
\* rowPointers[rowCount] = valuesSize, every column index below colCount, no
\* stored zero.
\* ---------------------------------------------------------------------------
C4_ResultIsValidCSR ==
    Succeeded =>
        /\ result.noRows = A.noRows /\ result.noCols = B.noCols
        /\ ValidCSR(result)

\* a size-predicted result from which the compactor removed a cancelled entry
C4_Witness ==
    /\ Succeeded /\ impl = 5
    /\ result.valuesSize >= 1
    /\ result.valuesSize < PredictedSize(A, B)
    /\ \E r \in 0..(A.noRows - 1) : \E c \in 0..(B.noCols - 1) :
          /\ ProductEntry(A, B, r, c) = 0
          /\ \E k \in 0..(A.noCols - 1) : Entry(A, r, k) * Entry(B, k, c) # 0

\* ---------------------------------------------------------------------------
\* C8: the predicted size is at least the number of entries any kernel
\* returns and at most rowCount_A * colCount_B.
\* ---------------------------------------------------------------------------
C8_PredictionIsUpperBound ==
    Succeeded =>
        /\ result.valuesSize <= PredictedSize(A, B)
        /\ PredictedSize(A, B) <= A.noRows * B.noCols

\* the prediction is exact on a result that fills it, and clamped on another
C8_Witness ==
    /\ Succeeded /\ impl = 2
    /\ result.valuesSize = PredictedSize(A, B)
    /\ result.valuesSize >= 2
    /\ PredictSum(A, B, A.noCols) > A.noRows * B.noCols

\* ---------------------------------------------------------------------------
\* The multithreaded path of matr_mult_csr (lines 30-78), one step per store of
\* a worker.  The path is taken for matrices of at least THREAD_MIN_NNZ values;
\* its code does not read that number again, and the model runs it on small
\* operands and on every thread_count of 1..MaxThreads.
\* ---------------------------------------------------------------------------
ThreadOperandsA ==
    UNION {CSRUpTo(n, 1, MaxNnzA) : n \in 1..MaxThreadRows}

ThreadOperandsB ==
    CSRSet(1, MaxCols)

InitThreads ==
    /\ A \in ThreadOperandsA
    /\ B \in ThreadOperandsB
    /\ result = EmptyHandle
    /\ heap = EmptyHeap(0)
    /\ errno = 0
    /\ impl = -1
    /\ avx = FALSE
    /\ pc = "ready"
    /\ NoThreads
    /\ NoTest
    /\ NoMain
    /\ NoV5
    /\ OneProc
    /\ NoFile

IdleWorker ==
    [pc |-> "idle", rowA |-> 0, k |-> 1, loaded |-> FALSE, valueC |-> 0]

\* lines 30-61 and start_threads up to its second loop
T_Start ==
    /\ pc = "ready"
    /\ \E tc \in 1..MaxThreads :
          LET i == init_empty_csr_matrix(A, B, result, NO_PREDICTION, heap)
              st == start_threads_setup(tc, A, i.heap)
          IN /\ impl' = 0
             /\ IF ~can_multiply(A, B)
                THEN /\ errno' = MATRIX_DIMENSION_ERROR
                     /\ pc' = "done"
                     /\ UNCHANGED <<result, heap, threadVars>>
                ELSE IF i.ret = HEAP_MEMORY_ERROR
                THEN /\ errno' = HEAP_MEMORY_ERROR
                     /\ pc' = "done"
                     /\ result' = i.result
                     /\ heap' = i.heap
                     /\ UNCHANGED threadVars
                ELSE /\ result' = i.result
                     /\ heap' = st.heap
                     /\ thread_count' = tc
                     /\ arguments' = st.arguments
                     /\ tmem' = [pArguments |-> st.pArguments,
                                 pThreads |-> st.pThreads]
                     /\ workers' = [w \in 1..Len(st.arguments) |-> IdleWorker]
                     /\ writes' = {}
                     /\ errno' = IF st.ret = THREAD_START_ERROR
                                 THEN THREAD_START_ERROR ELSE errno
                     /\ pc' = IF st.ret = THREAD_START_ERROR THEN "done"
                              ELSE IF st.ret = HEAP_MEMORY_ERROR THEN "undefined"
                              ELSE "create"
    /\ UNCHANGED <<A, B, avx>>
    /\ UNCHANGED testVars
    /\ UNCHANGED mainVars
    /\ UNCHANGED v5
    /\ UNCHANGED available_threads
    /\ UNCHANGED matrix_file

Created ==
    Cardinality({w \in 1..Len(workers) : workers[w].pc # "idle"})

\* pthread_create of the next worker succeeds
T_Create ==
    /\ pc = "create"
    /\ workers' = [workers EXCEPT ![Created + 1].pc = "start"]
    /\ pc' = IF Created + 1 = thread_count THEN "join" ELSE "create"
    /\ UNCHANGED <<A, B, result, heap, errno, impl, avx,
                   thread_count, arguments, tmem, writes>>
    /\ UNCHANGED testVars
    /\ UNCHANGED mainVars
    /\ UNCHANGED v5
    /\ UNCHANGED available_threads
    /\ UNCHANGED matrix_file

\* Mutant of Joined: a worker counts as joined as soon as it was started.
Joined_CountsStarted ==
    Cardinality({w \in 1..Len(workers) : workers[w].pc # "idle"})

Joined ==
    Cardinality({w \in 1..Len(workers) : workers[w].pc = "joined"})

\* pthread_join(threads[i]); free(arguments[i])
T_Join ==
    /\ pc = "join"
    /\ Joined < thread_count
    /\ workers[Joined + 1].pc = "done"
    /\ workers' = [workers EXCEPT ![Joined + 1].pc = "joined"]
    /\ heap' = free(heap, arguments[Joined + 1].p)
    /\ UNCHANGED <<A, B, result, errno, impl, avx, pc,
                   thread_count, arguments, tmem, writes>>
    /\ UNCHANGED testVars
    /\ UNCHANGED mainVars
    /\ UNCHANGED v5
    /\ UNCHANGED available_threads
    /\ UNCHANGED matrix_file

\* free(arguments); free(threads); clean_up_csr(matrix_result)
T_Finish ==
    /\ pc = "join"
    /\ Joined = thread_count
    /\ LET h == free(free(heap, tmem.pArguments), tmem.pThreads)
           c == clean_up_csr(result, h)
       IN /\ result' = c.result
          /\ heap' = c.heap
          /\ errno' = IF c.ret = HEAP_MEMORY_ERROR THEN HEAP_MEMORY_ERROR ELSE errno
    /\ pc' = "done"
    /\ UNCHANGED <<A, B, impl, avx, thread_count, arguments, tmem, workers, writes>>
    /\ UNCHANGED testVars
    /\ UNCHANGED mainVars
    /\ UNCHANGED v5
    /\ UNCHANGED available_threads
    /\ UNCHANGED matrix_file

\* the worker is past its last row
Finished(w, rowA) ==
    rowA >= arguments[w].end_row

\* matrix_result->rowPointers[0] = 0
W_Start(w) ==
    /\ workers[w].pc = "start"
    /\ result' = [result EXCEPT !.rowPointers = Put(@, 0, 0)]
    /\ writes' = writes \cup {<<w, "rowPointers", 0>>}
    /\ workers' = [workers EXCEPT
                      ![w].rowA = FirstRow(arguments[w]),
                      ![w].k = 1,
                      ![w].pc = IF Finished(w, FirstRow(arguments[w]))
                                THEN "done" ELSE "run"]
    /\ UNCHANGED <<A, B, heap, errno, impl, avx, pc, thread_count, arguments, tmem>>
    /\ UNCHANGED testVars
    /\ UNCHANGED mainVars
    /\ UNCHANGED v5
    /\ UNCHANGED available_threads
    /\ UNCHANGED matrix_file

AtPair(w) ==
    /\ workers[w].pc = "run"
    /\ workers[w].k <= Len(RowPairs(A, B, workers[w].rowA))

PairOf(w) ==
    RowPairs(A, B, workers[w].rowA)[workers[w].k]

ValueIndex(w) ==
    DenseOffset(workers[w].rowA, result.noCols, At(B.colIndices, PairOf(w)[2]))

ColIndex(w) ==
    DenseOffset(workers[w].rowA, B.noCols, At(B.colIndices, PairOf(w)[2]))

\* valueC = valueA * valueB and the load of values[...] for the += of line 63
W_Load(w) ==
    /\ AtPair(w)
    /\ ~workers[w].loaded
    /\ workers' = [workers EXCEPT
                      ![w].loaded = TRUE,
                      ![w].valueC = At(result.values, ValueIndex(w))
                                    + At(A.values, PairOf(w)[1])
                                      * At(B.values, PairOf(w)[2])]
    /\ UNCHANGED <<A, B, result, heap, errno, impl, avx, pc,
                   thread_count, arguments, tmem, writes>>
    /\ UNCHANGED testVars
    /\ UNCHANGED mainVars
    /\ UNCHANGED v5
    /\ UNCHANGED available_threads
    /\ UNCHANGED matrix_file

\* the stores of lines 63 and 65
W_Store(w) ==
    /\ AtPair(w)
    /\ workers[w].loaded
    /\ result' = [result EXCEPT
                     !.values = Put(@, ValueIndex(w), workers[w].valueC),
                     !.colIndices = Put(@, ColIndex(w),
                                        At(B.colIndices, PairOf(w)[2]))]
    /\ writes' = writes \cup {<<w, "values", ValueIndex(w)>>,
                              <<w, "colIndices", ColIndex(w)>>}
    /\ workers' = [workers EXCEPT ![w].loaded = FALSE, ![w].k = @ + 1]
    /\ UNCHANGED <<A, B, heap, errno, impl, avx, pc, thread_count, arguments, tmem>>
    /\ UNCHANGED testVars
    /\ UNCHANGED mainVars
    /\ UNCHANGED v5
    /\ UNCHANGED available_threads
    /\ UNCHANGED matrix_file

\* matrix_result->rowPointers[rowA + 1] = (rowA + 1) * noCols; rowA++
W_RowEnd(w) ==
    /\ workers[w].pc = "run"
    /\ workers[w].k > Len(RowPairs(A, B, workers[w].rowA))
    /\ LET rowA == workers[w].rowA
       IN /\ result' = [result EXCEPT !.rowPointers =
                                          Put(@, rowA + 1, (rowA + 1) * result.noCols)]
          /\ writes' = writes \cup {<<w, "rowPointers", rowA + 1>>}
          /\ workers' = [workers EXCEPT
                            ![w].rowA = rowA + 1,
                            ![w].k = 1,
                            ![w].pc = IF Finished(w, rowA + 1) THEN "done" ELSE "run"]
    /\ UNCHANGED <<A, B, heap, errno, impl, avx, pc, thread_count, arguments, tmem>>
    /\ UNCHANGED testVars
    /\ UNCHANGED mainVars
    /\ UNCHANGED v5
    /\ UNCHANGED available_threads
    /\ UNCHANGED matrix_file

NextThreads ==
    \/ T_Start
    \/ T_Create
    \/ T_Join
    \/ T_Finish
    \/ \E w \in 1..Len(workers) : W_Start(w)
    \/ \E w \in 1..Len(workers) : W_Load(w)
    \/ \E w \in 1..Len(workers) : W_Store(w)
    \/ \E w \in 1..Len(workers) : W_RowEnd(w)

SpecThreads == InitThreads /\ [][NextThreads]_vars

\* ---------------------------------------------------------------------------
\* Claims about the multithreaded kernel (SpecThreads)
\* ---------------------------------------------------------------------------
\* the workers that have stored to index i of array name
WritersOf(name, i) ==
    {w \in 1..Len(workers) : <<w, name, i>> \in writes}

\* C5: no two distinct workers ever write the same location of the shared
\* result matrix (any index of values, colIndices or rowPointers).
C5_WorkersWriteDisjointLocations ==
    \A wr \in writes : Cardinality(WritersOf(wr[2], wr[3])) = 1

\* the rows of [0, noRows) that fall in the range of descriptor i
RowsOfWorker(i) ==
    {r \in 0..(A.noRows - 1) :
        arguments[i].start_row <= r /\ r < arguments[i].end_row}

\* C6: the descriptors built by start_threads start at row 0, are contiguous
\* (end_row(i) = start_row(i+1)), are non-empty or empty but never reversed,
\* end at rowCount, and so give every row to exactly one worker.
C6_PartitionCoversRows ==
    arguments # <<>> =>
        /\ Len(arguments) = thread_count
        /\ arguments[1].start_row = 0
        /\ \A i \in 1..(Len(arguments) - 1) :
              arguments[i].end_row = arguments[i + 1].start_row
        /\ \A i \in 1..Len(arguments) :
              arguments[i].start_row <= arguments[i].end_row
        /\ arguments[Len(arguments)].end_row = A.noRows
        /\ \A r \in 0..(A.noRows - 1) :
              Cardinality({i \in 1..Len(arguments) : r \in RowsOfWorker(i)}) = 1

\* descriptors with a remainder (3 rows, 2 workers) and with more workers
\* than rows have both been built and used
C6_Witness ==
    /\ pc = "done"
    /\ errno = 0
    /\ arguments # <<>>
    /\ \/ A.noRows = 3 /\ thread_count = 2
       \/ A.noRows = 2 /\ thread_count = 3 /\ RowsOfWorker(3) = {}

\* the matrix a handle holds, without the addresses of its arrays
MatrixOf(h) ==
    Matrix(h.noRows, h.noCols, h.values, h.colIndices, h.rowPointers)

\* C7: whatever the thread count and the interleaving of the workers' steps,
\* the result after the joins and the compactor is the result of the
\* sequential kernel V2 on the same operands.
C7_ThreadsMatchV2 ==
    (pc = "done" /\ impl = 0 /\ thread_count > 0) =>
        LET v2 == matr_mult_csr_V2(A, B, EmptyHandle, EmptyHeap(0))
        IN /\ errno = v2.errno
           /\ MatrixOf(result) = MatrixOf(v2.result)
           /\ result.valuesSize = v2.result.valuesSize
           /\ result.rowPointersSize = v2.result.rowPointersSize

\* three workers have finished a product with stored entries in several rows
C7_Witness ==
    /\ pc = "done"
    /\ impl = 0
    /\ errno = 0
    /\ thread_count = 3
    /\ A.noRows = 3
    /\ result.valuesSize >= 2
    /\ \A w \in 1..Len(workers) : workers[w].pc = "joined"

\* ---------------------------------------------------------------------------
\* A call of equals on two matrices, either of which may be NULL
\* ---------------------------------------------------------------------------
EqualsOperands ==
    OperandsA \cup {NullMatrix}

InitEquals ==
    /\ A \in EqualsOperands
    /\ B \in EqualsOperands
    /\ result = EmptyHandle
    /\ heap = EmptyHeap(0)
    /\ errno = 0
    /\ impl = -1
    /\ avx = FALSE
    /\ pc = "ready"
    /\ NoThreads
    /\ NoTest
    /\ NoMain
    /\ NoV5
    /\ OneProc
    /\ NoFile

Equals ==
    /\ pc = "ready"
    /\ LET e == equals(A, B)
       IN /\ \E o \in e.outcomes : ret' = o
          /\ sorted' = <<e.a, e.b>>
    /\ pc' = "done"
    /\ UNCHANGED <<A, B, result, heap, errno, impl, avx, dense, ordinary>>
    /\ UNCHANGED threadVars
    /\ UNCHANGED mainVars
    /\ UNCHANGED v5
    /\ UNCHANGED available_threads
    /\ UNCHANGED matrix_file

NextEquals ==
    Equals

SpecEquals == InitEquals /\ [][NextEquals]_vars

\* ---------------------------------------------------------------------------
\* The round trip of a dense matrix through ordinary_to_csr and csr_to_ordinary
\* ---------------------------------------------------------------------------
DenseInputs ==
    UNION {{[noRows |-> d[1], noCols |-> d[2], cells |-> cells] :
               cells \in [1..d[1] -> [1..d[2] -> (0 - MaxVal)..MaxVal]]} :
           d \in (0..MaxDenseRows) \X (0..MaxDenseCols)}

InitDense ==
    /\ A = NullMatrix
    /\ B = NullMatrix
    /\ result = EmptyHandle
    /\ heap = EmptyHeap(0)
    /\ errno = 0
    /\ impl = -1
    /\ avx = FALSE
    /\ pc = "ready"
    /\ NoThreads
    /\ ret = NotCalled
    /\ sorted = <<>>
    /\ dense \in DenseInputs
    /\ ordinary = <<>>
    /\ NoMain
    /\ NoV5
    /\ OneProc
    /\ NoFile

\* csr = ordinary_to_csr(noRows, noCols, dense)
ToCsr ==
    /\ pc = "ready"
    /\ LET t == ordinary_to_csr(dense.noRows, dense.noCols, dense.cells, heap)
       IN /\ result' = t.csr
          /\ heap' = t.heap
          /\ pc' = IF t.ok THEN "csr" ELSE "done"
    /\ UNCHANGED <<A, B, errno, impl, avx, ret, sorted, dense, ordinary>>
    /\ UNCHANGED threadVars
    /\ UNCHANGED mainVars
    /\ UNCHANGED v5
    /\ UNCHANGED available_threads
    /\ UNCHANGED matrix_file

\* ordinary = csr_to_ordinary(csr)
ToOrdinary ==
    /\ pc = "csr"
    /\ LET o == csr_to_ordinary(result, heap)
       IN /\ ordinary' = [ok |-> o.ok, cells |-> o.ord.cells]
          /\ heap' = o.heap
    /\ pc' = "done"
    /\ UNCHANGED <<A, B, result, errno, impl, avx, ret, sorted, dense>>
    /\ UNCHANGED threadVars
    /\ UNCHANGED mainVars
    /\ UNCHANGED v5
    /\ UNCHANGED available_threads
    /\ UNCHANGED matrix_file

NextDense ==
    \/ ToCsr
    \/ ToOrdinary

SpecDense == InitDense /\ [][NextDense]_vars

\* ---------------------------------------------------------------------------
\* Claims about equals (SpecEquals) and about the conversions (SpecDense)
\* ---------------------------------------------------------------------------
\* identical dimensions, nnz and rowPointers, and in every row the same
\* (column, value) pairs whatever their order
SameMatrix(m1, m2) ==
    /\ ~IsNull(m1)
    /\ ~IsNull(m2)
    /\ StructEq(m1, m2)
    /\ StructEq(m2, m1)

\* C9: equals(M1, M2) returns 1 if and only if M1 and M2 have identical
\* dimensions, nnz and rowPointers and in every row the same (column, value)
\* pairs regardless of their order; it returns 0 in every other case,
\* a NULL argument included.
C9_EqualsIffSameMatrix ==
    (pc = "done" /\ ret # NotCalled) =>
        /\ ret.returned
        /\ ret.value = IF SameMatrix(A, B) THEN 1 ELSE 0

\* C10: for every dense matrix D, csr_to_ordinary(ordinary_to_csr(D)) equals
\* D cell by cell.
C10_DenseRoundTrip ==
    (pc = "done" /\ dense # <<>>) =>
        /\ ordinary # <<>>
        /\ ordinary.ok
        /\ \A i \in 0..(dense.noRows - 1) : \A j \in 0..(dense.noCols - 1) :
              At(At(ordinary.cells, i), j) = At(At(dense.cells, i), j)

\* a round trip of a matrix with a row of zeros, and a row that has a zero
\* between two values
C10_Witness ==
    /\ pc = "done"
    /\ dense # <<>>
    /\ ordinary # <<>>
    /\ dense.noRows = 2
    /\ dense.noCols = 3
    /\ \E i \in 0..1 : \A j \in 0..2 : At(At(dense.cells, i), j) = 0
    /\ \E i \in 0..1 : /\ At(At(dense.cells, i), 0) # 0
                       /\ At(At(dense.cells, i), 1) = 0
                       /\ At(At(dense.cells, i), 2) # 0

\* ---------------------------------------------------------------------------
\* The round trip of a CSR matrix through csr_to_ordinary and ordinary_to_csr
\* ---------------------------------------------------------------------------
\* the matrices read_matrix_from_file accepts, within the bounds
CsrInputs ==
    UNION {CSRUpTo(d[1], d[2], MaxCsrNnz) : d \in (1..MaxRows) \X (1..MaxCols)}

InitCsr ==
    /\ A \in CsrInputs
    /\ B = NullMatrix
    /\ result = EmptyHandle
    /\ heap = EmptyHeap(0)
    /\ errno = 0
    /\ impl = -1
    /\ avx = FALSE
    /\ pc = "ready"
    /\ NoThreads
    /\ NoTest
    /\ NoMain
    /\ NoV5
    /\ OneProc
    /\ NoFile

\* ordinary = csr_to_ordinary(M)
CsrToOrdinary ==
    /\ pc = "ready"
    /\ LET o == csr_to_ordinary(A, heap)
       IN /\ ordinary' = [ok |-> o.ok, cells |-> o.ord.cells]
          /\ heap' = o.heap
          /\ pc' = IF o.ok THEN "ordinary" ELSE "done"
    /\ UNCHANGED <<A, B, result, errno, impl, avx, ret, sorted, dense>>
    /\ UNCHANGED threadVars
    /\ UNCHANGED mainVars
    /\ UNCHANGED v5
    /\ UNCHANGED available_threads
    /\ UNCHANGED matrix_file

\* csr = ordinary_to_csr(M->noRows, M->noCols, ordinary)
OrdinaryToCsr ==
    /\ pc = "ordinary"
    /\ LET t == ordinary_to_csr(A.noRows, A.noCols, ordinary.cells, heap)
       IN /\ result' = t.csr
          /\ heap' = t.heap
    /\ pc' = "done"
    /\ UNCHANGED <<A, B, errno, impl, avx, ret, sorted, dense, ordinary>>
    /\ UNCHANGED threadVars
    /\ UNCHANGED mainVars
    /\ UNCHANGED v5
    /\ UNCHANGED available_threads
    /\ UNCHANGED matrix_file

NextCsr ==
    \/ CsrToOrdinary
    \/ OrdinaryToCsr

SpecCsr == InitCsr /\ [][NextCsr]_vars

\* the matrix the result handle holds
HandleMatrix(h) ==
    [noRows |-> h.noRows, noCols |-> h.noCols,
     values |-> h.values, valuesSize |-> h.valuesSize,
     colIndices |-> h.colIndices,
     rowPointers |-> h.rowPointers, rowPointersSize |-> h.rowPointersSize]

\* both conversions returned a non-NULL pointer
RoundTripDone ==
    /\ pc = "done"
    /\ result.pRowPointers # NULL

\* C11 as stated: for any valid CSR matrix M,
\* ordinary_to_csr(csr_to_ordinary(M)) is structurally equal to M (same
\* dimensions, nnz, rowPointers and per-row (column, value) pairs up to order).
C11_CsrRoundTrip ==
    pc = "done" =>
        /\ RoundTripDone
        /\ StructEq(A, HandleMatrix(result))
        /\ StructEq(HandleMatrix(result), A)

\* C11 amended: the round trip gives a structurally equal matrix for every
\* valid CSR matrix whose rows each have pairwise distinct column indices.
C11_CsrRoundTripDistinctCols ==
    (pc = "done" /\ DistinctCols(A)) =>
        /\ RoundTripDone
        /\ StructEq(A, HandleMatrix(result))
        /\ StructEq(HandleMatrix(result), A)

\* a round trip of a matrix with an empty first row and a second row stored
\* with its columns in descending order
C11_Witness ==
    /\ RoundTripDone
    /\ DistinctCols(A)
    /\ A.noRows = 2
    /\ A.noCols = 2
    /\ A.rowPointers = <<0, 0, 2>>
    /\ A.colIndices = <<1, 0>>
    /\ result.colIndices = <<0, 1>>

\* ---------------------------------------------------------------------------
\* clean_up_csr on a result buffer, run twice
\* ---------------------------------------------------------------------------
\* the row pointers that delimit noRows rows inside a buffer of capacity cap
RowPointersUpTo(noRows, cap) ==
    {rp \in [1..(noRows + 1) -> 0..cap] :
        /\ rp[1] = 0
        /\ \A r \in 1..noRows : rp[r] <= rp[r + 1]}

\* the buffers a kernel hands to clean_up_csr: capacity valuesSize, values that
\* may be zero, rows delimited by rowPointers
Buffers ==
    UNION {UNION {
        {[noRows |-> d[1], noCols |-> d[2],
          values |-> v, valuesSize |-> cap,
          colIndices |-> c,
          rowPointers |-> rp, rowPointersSize |-> d[1] + 1,
          pValues |-> 1, pColIndices |-> 2, pRowPointers |-> 3] :
            v \in [1..cap -> (0 - MaxVal)..MaxVal],
            c \in [1..cap -> 0..(d[2] - 1)],
            rp \in RowPointersUpTo(d[1], cap)} :
        cap \in 0..MaxBuffer} :
        d \in (1..MaxRows) \X (1..MaxCols)}

\* the heap that holds the three arrays of the buffer
BufferHeap(failAt) ==
    [blocks |-> <<[site |-> "values", live |-> TRUE],
                  [site |-> "colIndices", live |-> TRUE],
                  [site |-> "rowPointers", live |-> TRUE]>>,
     calls |-> 0, failAt |-> failAt, doubleFree |-> FALSE]

InitClean ==
    /\ result \in Buffers
    /\ A = HandleMatrix(result)
    /\ B = NullMatrix
    /\ \E f \in 0..MaxFailAt : heap = BufferHeap(f)
    /\ errno = 0
    /\ impl = -1
    /\ avx = FALSE
    /\ pc = "ready"
    /\ NoThreads
    /\ NoTest
    /\ NoMain
    /\ NoV5
    /\ OneProc
    /\ NoFile

\* if (clean_up_csr(matrix_result) == HEAP_MEMORY_ERROR) errno = HEAP_MEMORY_ERROR;
CleanUp ==
    /\ pc \in {"ready", "once"}
    /\ LET c == clean_up_csr(result, heap)
       IN /\ result' = c.result
          /\ heap' = c.heap
          /\ errno' = IF c.ret = HEAP_MEMORY_ERROR THEN HEAP_MEMORY_ERROR ELSE errno
    /\ pc' = IF pc = "ready" THEN "once" ELSE "done"
    /\ UNCHANGED <<A, B, impl, avx>>
    /\ UNCHANGED threadVars
    /\ UNCHANGED testVars
    /\ UNCHANGED mainVars
    /\ UNCHANGED v5
    /\ UNCHANGED available_threads
    /\ UNCHANGED matrix_file

NextClean ==
    CleanUp

SpecClean == InitClean /\ [][NextClean]_vars

\* valid CSR, no stored zero value, valuesSize = rowPointers[rowCount]
IsCompact(h) ==
    /\ ValidCSR(HandleMatrix(h))
    /\ Len(h.values) = h.valuesSize
    /\ Len(h.colIndices) = h.valuesSize

\* C12: clean_up_csr on a matrix that is already compact leaves values,
\* colIndices, rowPointers and valuesSize unchanged (so running the compactor
\* twice gives the same matrix as running it once).
C12_CompactionIdempotent ==
    [][IsCompact(result) =>
          /\ result'.values = result.values
          /\ result'.colIndices = result.colIndices
          /\ result'.rowPointers = result.rowPointers
          /\ result'.valuesSize = result.valuesSize]_vars

\* the second run has acted on what the first run compacted: the buffer held
\* zero entries between two rows that each keep a value
C12_Witness ==
    /\ pc = "done"
    /\ errno = 0
    /\ IsCompact(result)
    /\ A.valuesSize = 3
    /\ result.valuesSize = 2
    /\ result.rowPointers = <<0, 1, 2>>

\* the stored pairs <<column, value>> of the index range lo .. hi-1
PairsOf(m, lo, hi) ==
    [k \in 1..(hi - lo) |-> <<At(m.colIndices, lo + k - 1), At(m.values, lo + k - 1)>>]

IsNonZeroPair(p) ==
    p[2] # 0

\* the nonzero-valued entries of lo .. hi-1 in their order
NonZeroPairs(m, lo, hi) ==
    SelectSeq(PairsOf(m, lo, hi), IsNonZeroPair)

\* the number of zero entries stored before index i
ZerosBefore(m, i) ==
    Cardinality({k \in 0..(i - 1) : At(m.values, k) = 0})

\* C20: after a successful clean_up_csr each row holds exactly the nonzero
\* entries of its original row range, in their original order and with their
\* original columns; each rowPointers[r] is its original value minus the
\* number of zero entries stored before it; valuesSize = rowPointers[rowCount]
\* = the number of nonzero entries.
C20_CompactorPostcondition ==
    (pc = "once" /\ errno = 0) =>
        /\ \A r \in 0..A.noRows :
              At(result.rowPointers, r)
                  = At(A.rowPointers, r) - ZerosBefore(A, At(A.rowPointers, r))
        /\ \A r \in 0..(A.noRows - 1) :
              PairsOf(result, At(result.rowPointers, r), At(result.rowPointers, r + 1))
                  = NonZeroPairs(A, At(A.rowPointers, r), At(A.rowPointers, r + 1))
        /\ result.valuesSize = At(result.rowPointers, A.noRows)
        /\ result.valuesSize
               = Len(NonZeroPairs(A, 0, At(A.rowPointers, A.noRows)))

\* a successful run on a buffer with a zero entry in front of a kept entry in
\* each of two rows
C20_Witness ==
    /\ pc = "once"
    /\ errno = 0
    /\ A.noRows = 2
    /\ A.valuesSize = 3
    /\ A.rowPointers = <<0, 2, 3>>
    /\ At(A.values, 0) = 0
    /\ At(A.values, 1) # 0
    /\ At(A.values, 2) # 0
    /\ result.valuesSize = 2

\* ---------------------------------------------------------------------------
\* main: the multiplication and the release of the matrices, in normal mode
\* and with time measurement, with an allocation call that may fail.
\* The heap holds the blocks allocated from malloc(sizeof(Matrix)) of
\* matrix_result on; matrix_a and matrix_b are released on every path.
\* ---------------------------------------------------------------------------
\* Matrix* matrix_result and Matrix* tmp_result: the first two blocks
P_MATRIX_RESULT == 1
P_TMP_RESULT == 2

\* the heap after the malloc(sizeof(Matrix)) calls of main
MainHeap(measure, failAt) ==
    [blocks |-> IF measure
                THEN <<[site |-> "matrix_result", live |-> TRUE],
                       [site |-> "tmp_result", live |-> TRUE]>>
                ELSE <<[site |-> "matrix_result", live |-> TRUE]>>,
     calls |-> 0, failAt |-> failAt, doubleFree |-> FALSE]

\* the matrices read from the two files: one column each
MainOperands ==
    UNION {CSRSet(n, 1) : n \in 1..MaxMainRows}

InitMain ==
    /\ A \in MainOperands
    /\ B \in MainOperands
    /\ result = EmptyHandle
    /\ tmp_result = EmptyHandle
    /\ measure_flag \in BOOLEAN
    /\ number_measures \in IF measure_flag THEN 1..2 ELSE {1}
    /\ \E f \in 0..MaxMainFailAt : heap = MainHeap(measure_flag, f)
    /\ errno = 0
    /\ impl \in 0..(NUMBER_OF_IMPLEMENTATIONS - 1)
    /\ avx \in IF impl = 4 THEN BOOLEAN ELSE {FALSE}
    /\ pc = "ready"
    /\ NoThreads
    /\ NoTest
    /\ NoV5
    /\ OneProc
    /\ NoFile

\* matr_mult_csr_fn(matrix_a, matrix_b, res) for the function choose_mult_fn
\* returned; identifier 0 hands matrices below the thresholds to V5
choose_mult_fn(implementation, cpu, a, b, res, h) ==
    CASE implementation = 0 -> matr_mult_csr_V5(a, b, res, h)
      [] implementation = 1 -> matr_mult_csr_V1(a, b, res, h)
      [] implementation = 2 -> matr_mult_csr_V2(a, b, res, h)
      [] implementation = 3 -> matr_mult_csr_V3(a, b, res, h)
      [] implementation = 4 -> matr_mult_csr_V4(a, b, res, h, cpu)
      [] implementation = 5 -> matr_mult_csr_V5(a, b, res, h)

\* the cases of switch (errno)
IsError(e) ==
    e \in {MATRIX_CONVERSION_ERROR, MATRIX_DIMENSION_ERROR,
           THREAD_START_ERROR, HEAP_MEMORY_ERROR}

\* free(values); free(colIndices); free(rowPointers); free(matrix)
free_csr_matrix(h, matrix, p) ==
    free(free(free(free(h, matrix.pValues), matrix.pColIndices),
              matrix.pRowPointers), p)

\* the first multiplication, into matrix_result
M_First ==
    /\ pc = "ready"
    /\ ~UsesThreads(A)
    /\ LET k == choose_mult_fn(impl, avx, A, B, result, heap)
       IN /\ result' = k.result
          /\ heap' = k.heap
          /\ errno' = k.errno
          /\ pc' = IF IsError(k.errno) THEN "error"
                   ELSE IF measure_flag /\ number_measures > 1 THEN "loop"
                   ELSE "write"
    /\ UNCHANGED <<A, B, impl, avx>>
    /\ UNCHANGED threadVars
    /\ UNCHANGED testVars
    /\ UNCHANGED mainVars
    /\ UNCHANGED v5
    /\ UNCHANGED available_threads
    /\ UNCHANGED matrix_file

\* one more multiplication, into tmp_result, whose subarrays are freed after it
M_Next ==
    /\ pc = "loop"
    /\ LET k == choose_mult_fn(impl, avx, A, B, tmp_result, heap)
       IN /\ tmp_result' = k.result
          /\ errno' = k.errno
          /\ heap' = IF IsError(k.errno) THEN k.heap
                     ELSE free(free(free(k.heap, k.result.pValues),
                                    k.result.pColIndices), k.result.pRowPointers)
          /\ pc' = IF IsError(k.errno) THEN "error" ELSE "write"
    /\ UNCHANGED <<A, B, result, impl, avx, measure_flag, number_measures, v5,
                   available_threads, matrix_file>>
    /\ UNCHANGED threadVars
    /\ UNCHANGED testVars

\* the error cases of switch (errno) and main_error: with time measurement
\* free_csr_matrices(3, ..., matrix_result) and free(tmp_result), without it
\* free(matrix_result)
M_Error ==
    /\ pc = "error"
    /\ heap' = IF measure_flag
               THEN free(free_csr_matrix(heap, result, P_MATRIX_RESULT), P_TMP_RESULT)
               ELSE free(heap, P_MATRIX_RESULT)
    /\ pc' = "exit"
    /\ UNCHANGED <<A, B, result, errno, impl, avx>>
    /\ UNCHANGED threadVars
    /\ UNCHANGED testVars
    /\ UNCHANGED mainVars
    /\ UNCHANGED v5
    /\ UNCHANGED available_threads
    /\ UNCHANGED matrix_file

\* free(tmp_result) after the measurement, the result written,
\* free_csr_matrices(3, matrix_a, matrix_b, matrix_result)
M_Exit ==
    /\ pc = "write"
    /\ heap' = free_csr_matrix(IF measure_flag THEN free(heap, P_TMP_RESULT) ELSE heap,
                               result, P_MATRIX_RESULT)
    /\ pc' = "exit"
    /\ UNCHANGED <<A, B, result, errno, impl, avx>>
    /\ UNCHANGED threadVars
    /\ UNCHANGED testVars
    /\ UNCHANGED mainVars
    /\ UNCHANGED v5
    /\ UNCHANGED available_threads
    /\ UNCHANGED matrix_file

NextMain ==
    \/ M_First
    \/ M_Next
    \/ M_Error
    \/ M_Exit

SpecMain == InitMain /\ [][NextMain]_vars

\* C13: for every algorithm identifier and every error outcome of a
\* multiplication call, once main (in normal and in benchmark mode) has
\* finished its cleanup, every buffer allocated for the result or as a
\* temporary has been freed exactly once: none is leaked, none is freed twice.
C13_ReleasedExactlyOnce ==
    (pc = "exit" /\ IsError(errno)) =>
        /\ LiveBlocks(heap) = {}
        /\ ~heap.doubleFree

\* ---------------------------------------------------------------------------
\* init_empty_csr_matrix on a result handle, then free_csr_matrix on it.
\* The handle is the one main passes: matrix_result, whose subarrays main set
\* to NULL, or tmp_result in a later repetition of the measurement, whose
\* subarrays were freed after the repetition before and still hold the
\* addresses.
\* ---------------------------------------------------------------------------
\* tmp_result after free(tmp_result->values), free(tmp_result->colIndices),
\* free(tmp_result->rowPointers): blocks 2, 3, 4 are freed, the fields kept
StaleHandle ==
    [EmptyHandle EXCEPT !.pValues = 2, !.pColIndices = 3, !.pRowPointers = 4]

StaleHeap(failAt) ==
    [blocks |-> <<[site |-> "matrix_result", live |-> TRUE],
                  [site |-> "values", live |-> FALSE],
                  [site |-> "colIndices", live |-> FALSE],
                  [site |-> "rowPointers", live |-> FALSE]>>,
     calls |-> 0, failAt |-> failAt, doubleFree |-> FALSE]

InitInit ==
    /\ A \in MainOperands
    /\ B \in MainOperands
    /\ can_multiply(A, B)
    /\ \E f \in 0..MaxInitFailAt :
          \/ result = EmptyHandle /\ heap = MainHeap(FALSE, f)
          \/ result = StaleHandle /\ heap = StaleHeap(f)
    /\ errno = 0
    /\ impl = -1
    /\ avx = FALSE
    /\ pc = "ready"
    /\ NoThreads
    /\ NoTest
    /\ NoMain
    /\ NoV5
    /\ OneProc
    /\ NoFile

\* init_empty_csr_matrix(matrix_a, matrix_b, result, predict_flag) as the
\* kernels call it, errno set from its return value
I_Init ==
    /\ pc = "ready"
    /\ \E predict_flag \in {NO_PREDICTION, PREDICT_SIZE} :
          LET i == init_empty_csr_matrix(A, B, result, predict_flag, heap)
          IN /\ result' = i.result
             /\ heap' = i.heap
             /\ errno' = i.ret
             /\ pc' = IF i.ret = HEAP_MEMORY_ERROR THEN "failed" ELSE "inited"
    /\ UNCHANGED <<A, B, impl, avx>>
    /\ UNCHANGED threadVars
    /\ UNCHANGED testVars
    /\ UNCHANGED mainVars
    /\ UNCHANGED v5
    /\ UNCHANGED available_threads
    /\ UNCHANGED matrix_file

\* free_csr_matrix(result)
I_Free ==
    /\ pc \in {"failed", "inited"}
    /\ heap' = free_csr_matrix(heap, result, P_MATRIX_RESULT)
    /\ pc' = "freed"
    /\ UNCHANGED <<A, B, result, errno, impl, avx>>
    /\ UNCHANGED threadVars
    /\ UNCHANGED testVars
    /\ UNCHANGED mainVars
    /\ UNCHANGED v5
    /\ UNCHANGED available_threads
    /\ UNCHANGED matrix_file

NextInit ==
    \/ I_Init
    \/ I_Free

SpecInit == InitInit /\ [][NextInit]_vars

\* C14: when init_empty_csr_matrix fails at any of its allocations it returns
\* HEAP_MEMORY_ERROR with values, colIndices and rowPointers of the result all
\* NULL and every array it had allocated freed, so that free_csr_matrix on
\* the result afterwards neither frees a block twice nor leaks one.
C14_FailedInitLeavesNull ==
    /\ pc = "failed" =>
          /\ result.pValues = NULL
          /\ result.pColIndices = NULL
          /\ result.pRowPointers = NULL
          /\ LiveBlocks(heap) = {P_MATRIX_RESULT}
    /\ (pc = "freed" /\ errno = HEAP_MEMORY_ERROR) =>
          /\ ~heap.doubleFree
          /\ LiveBlocks(heap) = {}

\* ---------------------------------------------------------------------------
\* matr_mult_csr with failures: an allocation call that may fail and a
\* pthread_create that may fail
\* ---------------------------------------------------------------------------
StartOperandsA ==
    UNION {CSRUpTo(n, 1, MaxNnzA) : n \in 1..MaxStartRows}

InitStart ==
    /\ A \in StartOperandsA
    /\ B \in ThreadOperandsB
    /\ result = EmptyHandle
    /\ \E f \in 0..MaxStartFailAt : heap = EmptyHeap(f)
    /\ errno = 0
    /\ impl = -1
    /\ avx = FALSE
    /\ pc = "ready"
    /\ NoThreads
    /\ NoTest
    /\ NoMain
    /\ NoV5
    /\ OneProc
    /\ NoFile

\* Mutant of FailJoinCount: the last worker started is not joined.
FailJoinCount_OneLess(i) ==
    IF i > 0 THEN i - 1 ELSE 0

\* for (j = 0; j < i; j++) pthread_join((*threads)[j], NULL): the number of
\* workers joined when pthread_create of worker i fails
FailJoinCount(i) ==
    i

\* pthread_create of the next worker fails
T_CreateFails ==
    /\ pc = "create"
    /\ pc' = "failjoin"
    /\ UNCHANGED <<A, B, result, heap, errno, impl, avx,
                   thread_count, arguments, tmem, workers, writes>>
    /\ UNCHANGED testVars
    /\ UNCHANGED mainVars
    /\ UNCHANGED v5
    /\ UNCHANGED available_threads
    /\ UNCHANGED matrix_file

\* pthread_join((*threads)[j], NULL) in the error branch
T_FailJoin ==
    /\ pc = "failjoin"
    /\ Joined < FailJoinCount(Created)
    /\ workers[Joined + 1].pc = "done"
    /\ workers' = [workers EXCEPT ![Joined + 1].pc = "joined"]
    /\ UNCHANGED <<A, B, result, heap, errno, impl, avx, pc,
                   thread_count, arguments, tmem, writes>>
    /\ UNCHANGED testVars
    /\ UNCHANGED mainVars
    /\ UNCHANGED v5
    /\ UNCHANGED available_threads
    /\ UNCHANGED matrix_file

\* free((*arguments)[j]) for every j, free(*arguments), return
\* THREAD_START_ERROR; matr_mult_csr sets errno and returns
T_FailReturn ==
    /\ pc = "failjoin"
    /\ Joined = FailJoinCount(Created)
    /\ LET FreeArgs[j \in 0..thread_count] ==
               IF j = 0 THEN heap ELSE free(FreeArgs[j - 1], arguments[j].p)
       IN heap' = free(FreeArgs[thread_count], tmem.pArguments)
    /\ errno' = THREAD_START_ERROR
    /\ pc' = "done"
    /\ UNCHANGED <<A, B, result, impl, avx,
                   thread_count, arguments, tmem, workers, writes>>
    /\ UNCHANGED testVars
    /\ UNCHANGED mainVars
    /\ UNCHANGED v5
    /\ UNCHANGED available_threads
    /\ UNCHANGED matrix_file

NextStart ==
    \/ T_Start
    \/ T_Create
    \/ T_CreateFails
    \/ T_FailJoin
    \/ T_FailReturn
    \/ T_Join
    \/ T_Finish
    \/ \E w \in 1..Len(workers) : W_Start(w)
    \/ \E w \in 1..Len(workers) : W_Load(w)
    \/ \E w \in 1..Len(workers) : W_Store(w)
    \/ \E w \in 1..Len(workers) : W_RowEnd(w)

SpecStart == InitStart /\ [][NextStart]_vars

\* C15: when the creation of worker i fails, every worker started before it
\* has been joined, and so has terminated, before matr_mult_csr reports
\* THREAD_START_ERROR: no worker is running when the caller sees the failure.
C15_JoinedBeforeFailure ==
    (pc = "done" /\ errno = THREAD_START_ERROR) =>
        \A w \in 1..Len(workers) : workers[w].pc \in {"idle", "joined"}

\* a failure after two workers were started and wrote to the result
C15_Witness ==
    /\ pc = "done"
    /\ errno = THREAD_START_ERROR
    /\ thread_count = 3
    /\ Joined = 2
    /\ Cardinality(writes) > 2

\* start_threads returned a non-zero code: THREAD_START_ERROR, after which
\* matr_mult_csr is done, or HEAP_MEMORY_ERROR, after which it goes on
StartFailed ==
    \/ pc = "undefined"
    \/ pc = "done" /\ errno = THREAD_START_ERROR

\* C16: whenever start_threads returns a non-zero code, matr_mult_csr reports
\* the error to its caller (errno set, the call over) and does not go on to
\* join workers, free descriptors or compact with handles never created.
C16_NoErrorSwallowed ==
    StartFailed => (pc = "done" /\ errno # 0)

\* ---------------------------------------------------------------------------
\* The head of matr_mult_csr: the choice between matr_mult_csr_V5 and the
\* multithreaded path, and the number of threads.  Of matrix_a only the
\* fields the choice reads are held.
\* ---------------------------------------------------------------------------
DispatchRows ==
    (1..MaxDispatchRows)
        \cup {THREAD_COND_MIN_VALUES * k : k \in 1..MaxDispatchRows}

DispatchNnz ==
    {0} \cup ((THREAD_MIN_NNZ - MaxNnzOffset)..(THREAD_MIN_NNZ + MaxNnzOffset))

InitDispatch ==
    /\ \E r \in DispatchRows, n \in DispatchNnz :
          A = [noRows |-> r, noCols |-> THREAD_MIN_NNZ + MaxNnzOffset,
               valuesSize |-> n, rowPointersSize |-> r + 1]
    /\ B = NullMatrix
    /\ result = EmptyHandle
    /\ heap = EmptyHeap(0)
    /\ errno = 0
    /\ impl = -1
    /\ avx = FALSE
    /\ pc = "ready"
    /\ NoThreads
    /\ NoTest
    /\ NoMain
    /\ NoV5
    /\ available_threads \in 1..MaxProcs
    /\ NoFile

\* the test of line 24: matr_mult_csr_V5 is called, no thread is created
D_Fallback ==
    /\ pc = "ready"
    /\ ~UsesThreads(A)
    /\ impl' = 0
    /\ pc' = "V5"
    /\ UNCHANGED <<A, B, result, heap, errno, avx>>
    /\ UNCHANGED threadVars
    /\ UNCHANGED testVars
    /\ UNCHANGED mainVars
    /\ UNCHANGED v5
    /\ UNCHANGED available_threads
    /\ UNCHANGED matrix_file

\* the multithreaded path: the thread count of lines 46-53
D_Threads ==
    /\ pc = "ready"
    /\ UsesThreads(A)
    /\ thread_count' = ThreadCount(A.noRows, available_threads)
    /\ impl' = 0
    /\ pc' = "threads"
    /\ UNCHANGED <<A, B, result, heap, errno, avx,
                   arguments, tmem, workers, writes>>
    /\ UNCHANGED testVars
    /\ UNCHANGED mainVars
    /\ UNCHANGED v5
    /\ UNCHANGED available_threads
    /\ UNCHANGED matrix_file

NextDispatch ==
    \/ D_Fallback
    \/ D_Threads

SpecDispatch == InitDispatch /\ [][NextDispatch]_vars

\* C17: identifier 0 runs the single-threaded kernel V5, and creates no
\* thread, exactly when nnz(A) < 10000 or rowCount(A) < 2; in every other
\* case it takes the multithreaded path, with a thread count of at least 2.
C17_DispatchHeuristic ==
    pc \in {"V5", "threads"} =>
        /\ pc = "V5" <=> (A.valuesSize < 10000 \/ A.noRows < 2)
        /\ pc = "V5" => thread_count = 0
        /\ pc = "threads" => thread_count >= 2

\* both sides of each threshold, and a count above the minimum
C17_Witness ==
    /\ pc = "threads"
    /\ A.valuesSize = 10000
    /\ A.noRows = 160
    /\ thread_count = 4

\* ---------------------------------------------------------------------------
\* read_matrix_from_file: the checks made on the four lines of the file once
\* _read_uint_64_array and _read_float_array have parsed them.  A parsed line
\* holds two numbers or more: both readers reject a line that ends before
\* its first comma.
\* ---------------------------------------------------------------------------
MATRIX_READ_SUCCESS == 0
MATRIX_FILE_FORMAT_ERROR == -3

\* the sequences over vals of min to max elements
SeqsBetween(vals, min, max) ==
    UNION {[1..n -> vals] : n \in min..max}

\* the parsed lines of a file: noRows and noCols, values, colIndices,
\* rowPointers
Files ==
    [header : SeqsBetween({0, 1, 2, WordMod - 1}, 2, 2) \cup {<<1, 1, 1>>},
     values : SeqsBetween({0, 1}, 2, MaxLineLen),
     colIndices : SeqsBetween({0, 1}, 2, MaxLineLen),
     rowPointers : SeqsBetween(0..MaxPtr, 2, MaxLineLen)]

check_values(values, values_size, noRows, noCols) ==
    IF values_size > UMul(noRows, noCols)
    THEN MATRIX_FILE_FORMAT_ERROR
    ELSE IF \E i \in 0..(values_size - 1) : At(values, i) = 0
    THEN MATRIX_FILE_FORMAT_ERROR
    ELSE 0

check_col_indices(colIndices, col_indices_size, values_size, noCols) ==
    IF col_indices_size # values_size
    THEN MATRIX_FILE_FORMAT_ERROR
    ELSE IF \E i \in 0..(col_indices_size - 1) : At(colIndices, i) >= noCols
    THEN MATRIX_FILE_FORMAT_ERROR
    ELSE 0

\* next_row_ptr - prev_row_ptr is a difference of two uint64_t
check_row_pointers(rowPointers, row_pointers_size, values_size, noRows, noCols) ==
    IF row_pointers_size < 2 \/ row_pointers_size # UAdd(noRows, 1)
    THEN MATRIX_FILE_FORMAT_ERROR
    ELSE IF At(rowPointers, 0) # 0
    THEN MATRIX_FILE_FORMAT_ERROR
    ELSE IF \E i \in 1..(row_pointers_size - 1) :
                USub(At(rowPointers, i), At(rowPointers, i - 1)) > noCols
    THEN MATRIX_FILE_FORMAT_ERROR
    ELSE IF At(rowPointers, row_pointers_size - 1) # values_size
    THEN MATRIX_FILE_FORMAT_ERROR
    ELSE 0

\* [ret, matrix]: the return value and *matrix, a NULL Matrix* unless the
\* file was read
read_matrix_from_file(file) ==
    IF Len(file.header) # 2
    THEN [ret |-> MATRIX_FILE_FORMAT_ERROR, matrix |-> NullMatrix]
    ELSE
    Bind(file.header[1], LAMBDA noRows :
    Bind(file.header[2], LAMBDA noCols :
    IF noRows = 0 \/ noCols = 0
    THEN [ret |-> MATRIX_FILE_FORMAT_ERROR, matrix |-> NullMatrix]
    ELSE IF check_values(file.values, Len(file.values), noRows, noCols)
                = MATRIX_FILE_FORMAT_ERROR
    THEN [ret |-> MATRIX_FILE_FORMAT_ERROR, matrix |-> NullMatrix]
    ELSE IF check_col_indices(file.colIndices, Len(file.colIndices),
                              Len(file.values), noCols)
                = MATRIX_FILE_FORMAT_ERROR
    THEN [ret |-> MATRIX_FILE_FORMAT_ERROR, matrix |-> NullMatrix]
    ELSE IF check_row_pointers(file.rowPointers, Len(file.rowPointers),
                               Len(file.values), noRows, noCols)
                = MATRIX_FILE_FORMAT_ERROR
    THEN [ret |-> MATRIX_FILE_FORMAT_ERROR, matrix |-> NullMatrix]
    ELSE [ret |-> MATRIX_READ_SUCCESS,
          matrix |-> Matrix(noRows, noCols, file.values, file.colIndices,
                            file.rowPointers)]))

\* A holds the parsed lines of the file, B the matrix read from it
InitRead ==
    /\ A \in Files
    /\ B = NullMatrix
    /\ result = EmptyHandle
    /\ heap = EmptyHeap(0)
    /\ errno = 0
    /\ impl = -1
    /\ avx = FALSE
    /\ pc = "ready"
    /\ NoThreads
    /\ NoTest
    /\ NoMain
    /\ NoV5
    /\ OneProc
    /\ NoFile

ReadMatrix ==
    /\ pc = "ready"
    /\ LET r == read_matrix_from_file(A)
       IN /\ ret' = Returned(r.ret)
          /\ B' = r.matrix
    /\ pc' = "done"
    /\ UNCHANGED <<A, result, heap, errno, impl, avx, sorted, dense, ordinary>>
    /\ UNCHANGED threadVars
    /\ UNCHANGED mainVars
    /\ UNCHANGED v5
    /\ UNCHANGED available_threads
    /\ UNCHANGED matrix_file

NextRead ==
    ReadMatrix

SpecRead == InitRead /\ [][NextRead]_vars

\* the conditions of CSR well-formedness on the numbers of a file
WellFormedFile(file) ==
    /\ Len(file.header) = 2
    /\ file.header[1] >= 1
    /\ file.header[2] >= 1
    /\ Len(file.rowPointers) = file.header[1] + 1
    /\ file.rowPointers[1] = 0
    /\ \A i \in 1..(Len(file.rowPointers) - 1) :
          file.rowPointers[i] <= file.rowPointers[i + 1]
    /\ file.rowPointers[Len(file.rowPointers)] = Len(file.values)
    /\ Len(file.colIndices) = Len(file.values)
    /\ \A i \in 1..Len(file.colIndices) : file.colIndices[i] < file.header[2]
    /\ \A i \in 1..Len(file.values) : file.values[i] # 0

\* C18: read_matrix_from_file returns MATRIX_READ_SUCCESS only for a matrix
\* with rowCount and colCount at least 1, rowCount + 1 row pointers that
\* begin with 0, do not decrease and end with nnz, nnz column indices each
\* below colCount, and no zero value; any file that breaks one of these, for
\* every unsigned value of the fields, yields MATRIX_FILE_FORMAT_ERROR.
C18_ValidatorEnforcesCsr ==
    pc = "done" =>
        /\ ret.value = MATRIX_READ_SUCCESS => WellFormedFile(A)
        /\ ~WellFormedFile(A) => ret.value = MATRIX_FILE_FORMAT_ERROR

\* ---------------------------------------------------------------------------
\* matr_mult_csr_V5 product by product: one step of multiply_V5 is the scan
\* of the result buffer for one scalar product valueA * valueB
\* ---------------------------------------------------------------------------
\* a row of A with a value in each of three columns, and a B of three rows
\* that store the columns 0 and 1, 0 and 1, and 0: five products for one row
\* of the result, of either sign
CancelOperandsA ==
    {Matrix(1, 3, values, <<0, 1, 2>>, <<0, 3>>) : values \in [1..3 -> Vals]}

CancelOperandsB ==
    {Matrix(3, 2, values, <<0, 1, 0, 1, 0>>, <<0, 2, 4, 5>>) :
        values \in [1..5 -> Vals]}

InitV5 ==
    /\ \/ A \in OperandsA /\ B \in OperandsB
       \/ A \in CancelOperandsA /\ B \in CancelOperandsB
    /\ result = EmptyHandle
    /\ heap = EmptyHeap(0)
    /\ errno = 0
    /\ impl = -1
    /\ avx = FALSE
    /\ pc = "ready"
    /\ NoThreads
    /\ NoTest
    /\ NoMain
    /\ NoV5
    /\ OneProc
    /\ NoFile

\* can_multiply, init_empty_csr_matrix with PREDICT_SIZE, and multiply_V5 up
\* to its loop over the rows of A
V5_Begin ==
    /\ pc = "ready"
    /\ impl' = 5
    /\ IF ~can_multiply(A, B)
       THEN /\ errno' = MATRIX_DIMENSION_ERROR
            /\ pc' = "done"
            /\ UNCHANGED <<result, heap>>
       ELSE LET i == init_empty_csr_matrix(A, B, result, PREDICT_SIZE, heap)
            IN /\ heap' = i.heap
               /\ IF i.ret = HEAP_MEMORY_ERROR
                  THEN /\ result' = i.result
                       /\ errno' = HEAP_MEMORY_ERROR
                       /\ pc' = "done"
                  ELSE /\ result' = [i.result EXCEPT !.rowPointers = Put(@, 0, 0)]
                       /\ errno' = errno
                       /\ pc' = "run"
    /\ UNCHANGED <<A, B, avx, v5>>
    /\ UNCHANGED threadVars
    /\ UNCHANGED testVars
    /\ UNCHANGED mainVars
    /\ UNCHANGED available_threads
    /\ UNCHANGED matrix_file

\* the product multiply_V5 is at: <<indexA, indexB>>
V5_Pair ==
    RowPairs(A, B, v5.rowA)[v5.k]

\* columnB and valueC of that product
V5_ColumnB ==
    At(B.colIndices, V5_Pair[2])

V5_ValueC ==
    At(A.values, V5_Pair[1]) * At(B.values, V5_Pair[2])

\* the loop over i for one product
V5_Step ==
    /\ pc = "run"
    /\ v5.k <= Len(RowPairs(A, B, v5.rowA))
    /\ LET st == V5_Scan([res |-> result, valuesBegPtr |-> v5.valuesBegPtr,
                          valuesEndPtr |-> v5.valuesEndPtr, dropped |-> v5.dropped],
                         v5.valuesBegPtr, V5_ColumnB, V5_ValueC)
       IN /\ result' = st.res
          /\ v5' = [v5 EXCEPT !.k = @ + 1,
                              !.valuesEndPtr = st.valuesEndPtr,
                              !.dropped = st.dropped]
    /\ UNCHANGED <<A, B, heap, errno, impl, avx, pc>>
    /\ UNCHANGED threadVars
    /\ UNCHANGED testVars
    /\ UNCHANGED mainVars
    /\ UNCHANGED available_threads
    /\ UNCHANGED matrix_file

\* rowPointers[rowA + 1] = valuesEndPtr; valuesBegPtr = valuesEndPtr; rowA++
V5_RowEnd ==
    /\ pc = "run"
    /\ v5.k > Len(RowPairs(A, B, v5.rowA))
    /\ result' = [result EXCEPT !.rowPointers = Put(@, v5.rowA + 1, v5.valuesEndPtr)]
    /\ v5' = [v5 EXCEPT !.rowA = @ + 1, !.k = 1, !.valuesBegPtr = v5.valuesEndPtr]
    /\ pc' = IF v5.rowA + 1 >= A.noRows THEN "clean" ELSE "run"
    /\ UNCHANGED <<A, B, heap, errno, impl, avx>>
    /\ UNCHANGED threadVars
    /\ UNCHANGED testVars
    /\ UNCHANGED mainVars
    /\ UNCHANGED available_threads
    /\ UNCHANGED matrix_file

\* clean_up_csr(matrix_result)
V5_Clean ==
    /\ pc = "clean"
    /\ LET c == clean_up_csr(result, heap)
       IN /\ result' = c.result
          /\ heap' = c.heap
          /\ errno' = IF c.ret = HEAP_MEMORY_ERROR THEN HEAP_MEMORY_ERROR ELSE errno
    /\ pc' = "done"
    /\ UNCHANGED <<A, B, impl, avx, v5>>
    /\ UNCHANGED threadVars
    /\ UNCHANGED testVars
    /\ UNCHANGED mainVars
    /\ UNCHANGED available_threads
    /\ UNCHANGED matrix_file

NextV5 ==
    \/ V5_Begin
    \/ V5_Step
    \/ V5_RowEnd
    \/ V5_Clean

SpecV5 == InitV5 /\ [][NextV5]_vars

\* the slots of the written slice [valuesBegPtr, valuesEndPtr) of the
\* current row that hold column col
SlotsOfColumn(col) ==
    {i \in v5.valuesBegPtr..(v5.valuesEndPtr - 1) : At(result.colIndices, i) = col}

\* the product is added to slot i, nothing else changes
MergedInto(i) ==
    /\ result'.values = Put(result.values, i, At(result.values, i) + V5_ValueC)
    /\ result'.colIndices = result.colIndices
    /\ v5'.valuesEndPtr = v5.valuesEndPtr

\* the product is stored at valuesEndPtr, which advances by one
AppendedAtEnd ==
    /\ result'.values = Put(result.values, v5.valuesEndPtr, V5_ValueC)
    /\ result'.colIndices = Put(result.colIndices, v5.valuesEndPtr, V5_ColumnB)
    /\ v5'.valuesEndPtr = v5.valuesEndPtr + 1

AppendOrMerge ==
    IF SlotsOfColumn(V5_ColumnB) # {}
    THEN /\ Cardinality(SlotsOfColumn(V5_ColumnB)) = 1
         /\ \E i \in SlotsOfColumn(V5_ColumnB) : MergedInto(i)
    ELSE AppendedAtEnd

\* C19: while multiply_V5 processes a row, every product is added to the one
\* slot of the row's written slice that holds its column or, when there is
\* none, stored at the end of the slice, which advances by one; the end
\* never decreases, no other slot changes, and when the row ends each column
\* occurs in at most one slot of [rowPointers[r], rowPointers[r + 1]).
C19_AppendOrMerge ==
    [][/\ (pc = "run" /\ v5'.k = v5.k + 1) => AppendOrMerge
       /\ v5'.valuesEndPtr >= v5.valuesEndPtr
       /\ (pc = "run" /\ v5'.rowA = v5.rowA + 1) =>
             \A i, j \in v5.valuesBegPtr..(v5.valuesEndPtr - 1) :
                 At(result'.colIndices, i) = At(result'.colIndices, j) => i = j
      ]_vars

\* C21: when the realloc of values or of colIndices fails in clean_up_csr,
\* the call returns HEAP_MEMORY_ERROR, values and colIndices still point to
\* live blocks, and the matrix is logically valid: valuesSize equals
\* rowPointers[rowCount].
C21_ShrinkFailureLeavesValid ==
    (pc = "once" /\ errno = HEAP_MEMORY_ERROR) =>
        /\ result.pValues \in LiveBlocks(heap)
        /\ result.pColIndices \in LiveBlocks(heap)
        /\ result.valuesSize = At(result.rowPointers, result.noRows)

\* C22: in the multithreaded kernel the compaction starts only after every
\* worker has terminated and been joined, it runs once per call, and no
\* worker writes to the result once it has started: the step that compacts
\* finds every worker joined, and after it the result and the stores of the
\* workers never change again.
C22_CompactionAfterJoin ==
    [][/\ (pc = "join" /\ pc' = "done") =>
             /\ Len(workers) = thread_count
             /\ \A w \in 1..Len(workers) : workers[w].pc = "joined"
       /\ pc = "done" =>
             /\ result' = result
             /\ writes' = writes
             /\ workers' = workers
      ]_vars

\* a call with three workers that wrote to the result, compacted
C22_Witness ==
    /\ pc = "done"
    /\ errno = 0
    /\ thread_count = 3
    /\ Joined = 3
    /\ Cardinality(writes) > 3
    /\ result.valuesSize < A.noRows * B.noCols

\* ---------------------------------------------------------------------------
\* multiply_V3 and multiply_V4 on a row of B long enough for full batches
\* ---------------------------------------------------------------------------
\* the column indices of a row of n entries: ascending, descending, or the
\* columns 0 and 1 in turn
SimdCols(n) ==
    {[j \in 1..n |-> j - 1], [j \in 1..n |-> n - j], [j \in 1..n |-> (j - 1) % 2]}

\* B has one row of up to MaxSimdLen entries
SimdOperandsB ==
    UNION {{Matrix(1, IF n > 2 THEN n ELSE 2, values, cols, <<0, n>>) :
               values \in [1..n -> Vals], cols \in SimdCols(n)} :
           n \in 0..MaxSimdLen}

InitSimd ==
    /\ A \in MainOperands
    /\ B \in SimdOperandsB
    /\ result = EmptyHandle
    /\ heap = EmptyHeap(0)
    /\ errno = 0
    /\ impl = -1
    /\ avx = TRUE
    /\ pc = "ready"
    /\ NoThreads
    /\ NoTest
    /\ NoMain
    /\ NoV5
    /\ OneProc
    /\ NoFile

\* the lane width of multiply_V3 and of multiply_V4
LanesOf(implementation) ==
    IF implementation = 3 THEN SSE_LANES ELSE AVX_LANES

\* init_empty_csr_matrix(NO_PREDICTION), then multiply_V3 or multiply_V4:
\* the result is the buffer the kernel leaves, before clean_up_csr
MultiplySimd ==
    /\ pc = "ready"
    /\ \E i \in {3, 4} :
          LET init == init_empty_csr_matrix(A, B, result, NO_PREDICTION, heap)
              m == multiply_simd(LanesOf(i), A, B, init.result, init.heap)
          IN /\ impl' = i
             /\ result' = m.result
             /\ heap' = m.heap
             /\ errno' = IF m.ret = HEAP_MEMORY_ERROR THEN HEAP_MEMORY_ERROR ELSE errno
    /\ pc' = "multiplied"
    /\ UNCHANGED <<A, B, avx>>
    /\ UNCHANGED threadVars
    /\ UNCHANGED testVars
    /\ UNCHANGED mainVars
    /\ UNCHANGED v5
    /\ UNCHANGED available_threads
    /\ UNCHANGED matrix_file

\* clean_up_csr(matrix_result)
CleanSimd ==
    /\ pc = "multiplied"
    /\ LET c == clean_up_csr(result, heap)
       IN /\ result' = c.result
          /\ heap' = c.heap
          /\ errno' = IF c.ret = HEAP_MEMORY_ERROR THEN HEAP_MEMORY_ERROR ELSE errno
    /\ pc' = "done"
    /\ UNCHANGED <<A, B, impl, avx>>
    /\ UNCHANGED threadVars
    /\ UNCHANGED testVars
    /\ UNCHANGED mainVars
    /\ UNCHANGED v5
    /\ UNCHANGED available_threads
    /\ UNCHANGED matrix_file

NextSimd ==
    \/ MultiplySimd
    \/ CleanSimd

SpecSimd == InitSimd /\ [][NextSimd]_vars

\* the entries of the row of B of entry indexA of A that the batches of
\* width lanes process before the scalar loop
BatchedEntries(lanes, indexA) ==
    IF USub(RowBEnd(A, B, indexA), RowBBeg(A, B, indexA)) >= lanes
    THEN SimdBatches(lanes, A, B, result, 0, indexA, RowBBeg(A, B, indexA),
                     USub(RowBEnd(A, B, indexA), RowBBeg(A, B, indexA))).indexB
             - RowBBeg(A, B, indexA)
    ELSE 0

\* C23: for every row of B of n entries that multiply_V3 (4 lanes) or
\* multiply_V4 (8 lanes) visits, floor(n / width) full batches are processed
\* and the n mod width entries left go to the scalar loop, so every entry
\* contributes one product: the buffer after the kernel equals the buffer
\* after multiply_V2.
C23_SimdCoversRowOnce ==
    pc = "multiplied" =>
        /\ \A indexA \in 0..(A.valuesSize - 1) :
              BatchedEntries(LanesOf(impl), indexA)
                  = LanesOf(impl) * (B.valuesSize \div LanesOf(impl))
        /\ LET v2 == multiply_V2(A, B,
                         init_empty_csr_matrix(A, B, EmptyHandle, NO_PREDICTION,
                                               EmptyHeap(0)).result)
           IN /\ result.values = v2.values
              /\ result.colIndices = v2.colIndices
              /\ result.rowPointers = v2.rowPointers

\* multiply_V4 on a row of 9 entries: one batch of 8 and 1 entry left, with
\* a column stored more than once
C23_Witness ==
    /\ pc = "multiplied"
    /\ impl = 4
    /\ B.valuesSize = 9
    /\ A.valuesSize = 2
    /\ At(B.colIndices, 2) = At(B.colIndices, 0)

\* ---------------------------------------------------------------------------
\* The thread count of matr_mult_csr
\* ---------------------------------------------------------------------------
\* x limited to the range lo..hi
Clamp(x, lo, hi) ==
    IF x < lo THEN lo ELSE IF x > hi THEN hi ELSE x

\* C24: on the multithreaded path (at least two rows in A) the thread count
\* handed to start_threads is min(rows / 40, rows / 4, available hardware
\* threads) limited to the range 2..rows, for every number of available
\* hardware threads; so it lies between 2 and the number of rows.
C24_ThreadCountClamped ==
    (pc = "threads" /\ A.noRows >= MIN_THREADS) =>
        /\ thread_count =
              Clamp(Min(Min(A.noRows \div THREAD_COND_MIN_VALUES,
                            A.noRows \div THREAD_COND_MIN_ROWS),
                        available_threads),
                    MIN_THREADS, A.noRows)
        /\ MIN_THREADS <= thread_count
        /\ thread_count <= A.noRows

\* the smallest matrix of the multithreaded path on a machine with more
\* processors than rows: the count is raised to two, which is every row
C24_Witness ==
    /\ pc = "threads"
    /\ A.noRows = MIN_THREADS
    /\ available_threads > A.noRows
    /\ thread_count = A.noRows

\* ---------------------------------------------------------------------------
\* What equals does to its arguments
\* ---------------------------------------------------------------------------
\* the three arrays of m1 and m2 hold the same elements at the same indices
SameElements(m1, m2) ==
    /\ \A i \in 0..(m1.valuesSize - 1) :
          /\ At(m1.values, i) = At(m2.values, i)
          /\ At(m1.colIndices, i) = At(m2.colIndices, i)
    /\ \A i \in 0..(m1.rowPointersSize - 1) :
          At(m1.rowPointers, i) = At(m2.rowPointers, i)

\* equals was given two matrices and has returned
EqualsReturned ==
    /\ pc = "done"
    /\ ret.returned
    /\ ~IsNull(A)
    /\ ~IsNull(B)

\* C25: the equality checker sorts a copy; after equals(M1, M2) returns, the
\* values, colIndices and rowPointers arrays of both arguments are
\* element for element the same as before the call.
C25_ArgumentsUntouched ==
    EqualsReturned =>
        /\ SameElements(sorted[1], A)
        /\ SameElements(sorted[2], B)

\* C25 as the code has it: equals sorts its arguments in place; after it
\* returns, rowPointers of both arguments is element for element the same as
\* before the call, and values and colIndices hold in every row the same
\* (column, value) pairs as before the call, possibly in another order.
C25_ArgumentsPermutedInRows ==
    EqualsReturned =>
        /\ SameMatrix(sorted[1], A)
        /\ SameMatrix(sorted[2], B)

\* equals returned 1 and left the first argument's row in another order
C25_Witness ==
    /\ EqualsReturned
    /\ ret.value = 1
    /\ ~SameElements(sorted[1], A)
    /\ A.valuesSize >= 2

\* ---------------------------------------------------------------------------
\* The size of the result buffer for operands whose dimensions multiply to
\* more than the word holds
\* ---------------------------------------------------------------------------
\* the stored entries <<column, 1>> of a row, for the columns of S in
\* ascending order
RECURSIVE OnesAt(_)
OnesAt(S) ==
    IF S = {} THEN <<>>
    ELSE LET c == CHOOSE x \in S : \A y \in S : x <= y
         IN <<(<<c, 1>>)>> \o OnesAt(S \ {c})

\* A has one column and stores a 1 in some of its first two rows and its last
SizingOperandsA ==
    UNION {{MatrixOfRows(n, 1, [i \in 1..n |-> IF (i - 1) \in S
                                               THEN <<(<<0, 1>>)>> ELSE <<>>]) :
               S \in SUBSET {0, 1, n - 1}} :
           n \in {MIN_THREADS, MaxSizingRows}}

\* B has one row and stores a 1 in its first column, its last, both or none
SizingOperandsB ==
    UNION {{MatrixOfRows(1, n, [i \in 1..1 |-> OnesAt(S)]) :
               S \in SUBSET {0, n - 1}} :
           n \in {MIN_THREADS, MaxSizingCols}}

InitSizing ==
    /\ A \in SizingOperandsA
    /\ B \in SizingOperandsB
    /\ result = EmptyHandle
    /\ \E f \in 0..MaxFailAt : heap = EmptyHeap(f)
    /\ errno = 0
    /\ impl = -1
    /\ avx = FALSE
    /\ pc = "ready"
    /\ NoThreads
    /\ NoTest
    /\ NoMain
    /\ NoV5
    /\ OneProc
    /\ NoFile

\* matr_mult_csr_V2 or matr_mult_csr_V5 up to the return of
\* init_empty_csr_matrix
S_Init ==
    /\ pc = "ready"
    /\ can_multiply(A, B)
    /\ \E i \in {2, 5} :
          LET init == init_empty_csr_matrix(
                          A, B, result,
                          IF i = 5 THEN PREDICT_SIZE ELSE NO_PREDICTION, heap)
          IN /\ impl' = i
             /\ result' = init.result
             /\ heap' = init.heap
             /\ errno' = IF init.ret = HEAP_MEMORY_ERROR
                         THEN HEAP_MEMORY_ERROR ELSE errno
             /\ pc' = IF init.ret = HEAP_MEMORY_ERROR THEN "done" ELSE "sized"
    /\ UNCHANGED <<A, B, avx>>
    /\ UNCHANGED threadVars
    /\ UNCHANGED testVars
    /\ UNCHANGED mainVars
    /\ UNCHANGED v5
    /\ UNCHANGED available_threads
    /\ UNCHANGED matrix_file

\* the offsets rowA * noCols + columnB at which multiply_V2 stores
DenseOffsets(a, b, res) ==
    UNION {{DenseOffset(rowA, res.noCols,
                        At(b.colIndices, RowPairs(a, b, rowA)[k][2])) :
               k \in 1..Len(RowPairs(a, b, rowA))} :
           rowA \in 0..(a.noRows - 1)}

\* rowCount_A * colCount_B fits the word
Representable(a, b) ==
    a.noRows * b.noCols < WordMod

\* multiply_V2.  When the product of the dimensions does not fit the word
\* the buffers are shorter than the offsets and the row ends the kernel
\* works with: the stores and the scan of clean_up_csr leave the buffers,
\* and the call either faults or goes on over foreign memory.
S_Multiply ==
    /\ pc = "sized"
    /\ impl = 2
    /\ writes' = {<<0, "values", o>> : o \in DenseOffsets(A, B, result)}
    /\ IF Representable(A, B)
       THEN /\ result' = multiply_V2(A, B, result)
            /\ pc' = "multiplied"
       ELSE /\ result' = result
            /\ pc' \in {"fault", "overrun"}
    /\ UNCHANGED <<A, B, heap, errno, impl, avx,
                   thread_count, arguments, tmem, workers>>
    /\ UNCHANGED testVars
    /\ UNCHANGED mainVars
    /\ UNCHANGED v5
    /\ UNCHANGED available_threads
    /\ UNCHANGED matrix_file

\* multiply_V5 on the buffer of the predicted size
S_MultiplyV5 ==
    /\ pc = "sized"
    /\ impl = 5
    /\ result' = multiply_V5(A, B, result)
    /\ pc' = "multiplied"
    /\ UNCHANGED <<A, B, heap, errno, impl, avx>>
    /\ UNCHANGED threadVars
    /\ UNCHANGED testVars
    /\ UNCHANGED mainVars
    /\ UNCHANGED v5
    /\ UNCHANGED available_threads
    /\ UNCHANGED matrix_file

\* clean_up_csr(matrix_result)
S_Clean ==
    /\ pc = "multiplied"
    /\ LET c == clean_up_csr(result, heap)
       IN /\ result' = c.result
          /\ heap' = c.heap
          /\ errno' = IF c.ret = HEAP_MEMORY_ERROR THEN HEAP_MEMORY_ERROR ELSE errno
    /\ pc' = "done"
    /\ UNCHANGED <<A, B, impl, avx>>
    /\ UNCHANGED threadVars
    /\ UNCHANGED testVars
    /\ UNCHANGED mainVars
    /\ UNCHANGED v5
    /\ UNCHANGED available_threads
    /\ UNCHANGED matrix_file

NextSizing ==
    \/ S_Init
    \/ S_Multiply
    \/ S_MultiplyV5
    \/ S_Clean

SpecSizing == InitSizing /\ [][NextSizing]_vars

\* C26: the sizing of the result is overflow-safe: when rowCount_A *
\* colCount_B does not fit the unsigned word init_empty_csr_matrix fails
\* with HEAP_MEMORY_ERROR instead of allocating a wrapped-around capacity,
\* and so every offset rowA * colCount + colB at which a dense-offset
\* kernel stores is strictly below the capacity valuesSize.
C26_SizingOverflowSafe ==
    /\ (pc # "ready" /\ ~Representable(A, B)) => errno = HEAP_MEMORY_ERROR
    /\ pc \in {"multiplied", "fault", "overrun"} =>
          \A wr \in writes : wr[3] < result.valuesSize

\* ---------------------------------------------------------------------------
\* The indices equals and sort_matrix read and write
\* ---------------------------------------------------------------------------
\* C27: for every pair of valid CSR arguments, matrices with an empty first
\* row, rows that begin at index 0 and matrices without stored values
\* included, every index at which equals and sort_matrix read or write
\* colIndices or values lies in [0, valuesSize), and equals terminates:
\* the call returns, it never ends in a fault.
C27_EqualsIndexSafe ==
    (pc = "done" /\ ~IsNull(A) /\ ~IsNull(B) /\ ValidCSR(A) /\ ValidCSR(B)) =>
        /\ ret.returned
        /\ ~ret.fault

\* ---------------------------------------------------------------------------
\* The scan of multiply_V5 over the buffer of the predicted size
\* ---------------------------------------------------------------------------
\* C28: with the buffer sized by predict_values_dimension, every product
\* multiply_V5 processes finds a slot, one of its column or an empty one, at
\* an index below valuesSize: the scan never reaches the end of the buffer
\* without having merged or stored the product.
C28_NoProductDropped ==
    v5.dropped = 0

\* ---------------------------------------------------------------------------
\* matr_mult_csr_V5 on operands whose products cannot cancel
\* ---------------------------------------------------------------------------
\* every stored value of m is strictly positive
AllPositive(m) ==
    \A i \in 0..(m.valuesSize - 1) : At(m.values, i) > 0

\* valid operands that can be multiplied, with pairwise distinct columns in
\* every row and strictly positive values
NoCancellation ==
    /\ can_multiply(A, B)
    /\ ValidCSR(A) /\ ValidCSR(B)
    /\ DistinctCols(A) /\ DistinctCols(B)
    /\ AllPositive(A) /\ AllPositive(B)

\* the rows that rowPointers delimits hold exactly the positive entries of
\* the product, each once and with its value
HoldsProduct(m) ==
    /\ At(m.rowPointers, 0) = 0
    /\ \A r \in 0..(A.noRows - 1) :
          /\ At(m.rowPointers, r) <= At(m.rowPointers, r + 1)
          /\ \A c \in 0..(B.noCols - 1) :
                IF ProductEntry(A, B, r, c) > 0
                THEN /\ Cardinality(Slots(m, r, c)) = 1
                     /\ \A i \in Slots(m, r, c) :
                           At(m.values, i) = ProductEntry(A, B, r, c)
                ELSE Slots(m, r, c) = {}

\* C29: for valid operands that can be multiplied, with pairwise distinct
\* column indices in every row and strictly positive values,
\* matr_mult_csr_V5 returns exactly the product: an entry (r, c, v) is
\* stored iff v is the positive sum over k of A[r,k] * B[k,c],
\* rowPointers[r + 1] is the true end of row r, and the compactor that
\* follows multiply_V5 removes nothing.
C29_V5ExactWithoutCancellation ==
    [][(NoCancellation /\ pc = "clean") =>
          /\ HoldsProduct(result)
          /\ \A i \in 0..(result.valuesSize - 1) :
                At(result.values, i) # 0 <=> i < At(result.rowPointers, A.noRows)
          /\ pc' = "done"
          /\ errno' = 0
          /\ result'.valuesSize = At(result.rowPointers, A.noRows)
          /\ result'.rowPointers = result.rowPointers
          /\ \A i \in 0..(result'.valuesSize - 1) :
                /\ At(result'.values, i) = At(result.values, i)
                /\ At(result'.colIndices, i) = At(result.colIndices, i)
          /\ HoldsProduct(result')
      ]_vars

\* a returned product with an entry that sums two products, from operands
\* that give five products for one row
C29_Witness ==
    /\ NoCancellation
    /\ pc = "done"
    /\ errno = 0
    /\ A.valuesSize = 3
    /\ result.valuesSize = 2
    /\ HoldsProduct(result)
    /\ \E c \in 0..(B.noCols - 1) : ProductEntry(A, B, 0, c) = 3

\* ---------------------------------------------------------------------------
\* The matrix file: write_matrix_to_file, and read_matrix_from_file from the
\* characters on.  A file is the sequence of its characters, over the
\* digits, the comma, the minus sign and the newline; the values are
\* integers, which %g prints without a decimal point.
\* ---------------------------------------------------------------------------
DigitChars ==
    <<"0", "1", "2", "3", "4", "5", "6", "7", "8", "9">>

\* "%lu" of n
RECURSIVE FormatLu(_)
FormatLu(n) ==
    IF n < 10 THEN <<DigitChars[n + 1]>>
    ELSE FormatLu(n \div 10) \o <<DigitChars[(n % 10) + 1]>>

\* "%g" of an integer value
FormatG(value) ==
    IF value < 0 THEN <<"-">> \o FormatLu(0 - value) ELSE FormatLu(value)

\* for (i = 0; i < size; i++) fprintf(file, "%g,", array[i])
RECURSIVE FloatsWithComma(_, _, _)
FloatsWithComma(array, i, size) ==
    IF i >= size THEN <<>>
    ELSE FormatG(At(array, i)) \o <<",">> \o FloatsWithComma(array, i + 1, size)

write_float_array(array, size) ==
    IF size = 0 THEN <<>>
    ELSE FloatsWithComma(array, 0, size - 1) \o FormatG(At(array, size - 1))

RECURSIVE UintsWithComma(_, _, _)
UintsWithComma(array, i, size) ==
    IF i >= size THEN <<>>
    ELSE FormatLu(At(array, i)) \o <<",">> \o UintsWithComma(array, i + 1, size)

write_uint_64_array(array, size) ==
    IF size = 0 THEN <<>>
    ELSE UintsWithComma(array, 0, size - 1) \o FormatLu(At(array, size - 1))

\* the characters write_matrix_to_file writes when no write fails
write_matrix_to_file(matrix) ==
    FormatLu(matrix.noRows) \o <<",">> \o FormatLu(matrix.noCols) \o <<"\n">>
        \o write_float_array(matrix.values, matrix.valuesSize) \o <<"\n">>
        \o write_uint_64_array(matrix.colIndices, matrix.valuesSize) \o <<"\n">>
        \o write_uint_64_array(matrix.rowPointers, matrix.rowPointersSize)

IsDigit(ch) ==
    \E d \in 1..10 : DigitChars[d] = ch

\* the number a sequence of digits stands for
RECURSIVE NumberOf(_)
NumberOf(digits) ==
    IF digits = <<>> THEN 0
    ELSE 10 * NumberOf(SubSeq(digits, 1, Len(digits) - 1))
             + ((CHOOSE d \in 1..10 : DigitChars[d] = digits[Len(digits)]) - 1)

\* strtoull / strtof of the buffer: [ok, value]; not ok when the number does
\* not fit the word (errno) or the buffer is a lone minus sign (*endptr)
Convert(buffer) ==
    IF buffer # <<>> /\ buffer[1] = "-"
    THEN [ok |-> Len(buffer) > 1, value |-> 0 - NumberOf(Tail(buffer))]
    ELSE [ok |-> NumberOf(buffer) < WordMod, value |-> NumberOf(buffer)]

\* the character fgetc returns at position pos
CharAt(text, pos) ==
    IF pos > Len(text) THEN "EOF" ELSE text[pos]

ReadError(st) ==
    [ret |-> MATRIX_FILE_FORMAT_ERROR, array |-> <<>>, pos |-> st.pos]

\* the loop of _read_uint_64_array and of _read_float_array (is_float) over
\* the characters of one line; st = [pos, buffer, array, trailing_comma_flag]
\* and the result is [ret, array, pos]
RECURSIVE ReadArray(_, _, _, _)
ReadArray(text, st, eof_flag, is_float) ==
    Bind(CharAt(text, st.pos), LAMBDA ch :
    IF IsDigit(ch)
    THEN ReadArray(text, [st EXCEPT !.pos = @ + 1, !.buffer = Append(@, ch),
                                   !.trailing_comma_flag = FALSE],
                   eof_flag, is_float)
    ELSE IF ch = eof_flag
    THEN IF st.trailing_comma_flag \/ Len(st.array) = 0
         THEN ReadError(st)
         ELSE IF ~Convert(st.buffer).ok THEN ReadError(st)
         ELSE [ret |-> MATRIX_READ_SUCCESS,
               array |-> Append(st.array, Convert(st.buffer).value),
               pos |-> st.pos + 1]
    ELSE IF ch = ","
    THEN IF st.buffer = <<>> THEN ReadError(st)
         ELSE IF ~Convert(st.buffer).ok THEN ReadError(st)
         ELSE ReadArray(text,
                        [st EXCEPT !.pos = @ + 1, !.buffer = <<>>,
                                   !.array = Append(@, Convert(st.buffer).value),
                                   !.trailing_comma_flag = TRUE],
                        eof_flag, is_float)
    ELSE IF is_float /\ ch = "-"
    THEN IF st.buffer = <<>>
         THEN ReadArray(text, [st EXCEPT !.pos = @ + 1, !.buffer = <<"-">>],
                        eof_flag, is_float)
         ELSE ReadError(st)
    ELSE ReadError(st))

LineStart(pos) ==
    [pos |-> pos, buffer |-> <<>>, array |-> <<>>, trailing_comma_flag |-> FALSE]

read_uint_64_array(text, pos, eof_flag) ==
    ReadArray(text, LineStart(pos), eof_flag, FALSE)

read_float_array(text, pos, eof_flag) ==
    ReadArray(text, LineStart(pos), eof_flag, TRUE)

\* read_matrix_from_file on the characters of the file: the four lines are
\* read, the last one up to the end of the file, and checked
read_matrix_from_text(text) ==
    Bind(read_uint_64_array(text, 1, "\n"), LAMBDA row_col :
    IF row_col.ret # MATRIX_READ_SUCCESS
    THEN [ret |-> row_col.ret, matrix |-> NullMatrix]
    ELSE
    Bind(read_float_array(text, row_col.pos, "\n"), LAMBDA values :
    IF values.ret # MATRIX_READ_SUCCESS
    THEN [ret |-> values.ret, matrix |-> NullMatrix]
    ELSE
    Bind(read_uint_64_array(text, values.pos, "\n"), LAMBDA colIndices :
    IF colIndices.ret # MATRIX_READ_SUCCESS
    THEN [ret |-> colIndices.ret, matrix |-> NullMatrix]
    ELSE
    Bind(read_uint_64_array(text, colIndices.pos, "EOF"), LAMBDA rowPointers :
    IF rowPointers.ret # MATRIX_READ_SUCCESS
    THEN [ret |-> rowPointers.ret, matrix |-> NullMatrix]
    ELSE read_matrix_from_file([header |-> row_col.array,
                                values |-> values.array,
                                colIndices |-> colIndices.array,
                                rowPointers |-> rowPointers.array])))))

\* the matrices written: every valid matrix of one or two rows and columns
\* with up to MaxNnzA values, the matrices without a value and with one
\* value among them, and a matrix whose numbers have two digits
FileMatrices ==
    UNION {CSRUpTo(d[1], d[2], MaxNnzA) : d \in (1..MaxRows) \X (1..MaxCols)}
        \cup {Matrix(1, MaxFileCols, <<v, 0 - v>>, <<MaxFileCols - 1, c>>, <<0, 2>>) :
                 v \in Vals, c \in 0..(MaxFileCols - 1)}

\* A is the matrix written, B the matrix read back
InitFile ==
    /\ A \in FileMatrices
    /\ B = NullMatrix
    /\ result = EmptyHandle
    /\ heap = EmptyHeap(0)
    /\ errno = 0
    /\ impl = -1
    /\ avx = FALSE
    /\ pc = "ready"
    /\ NoThreads
    /\ NoTest
    /\ NoMain
    /\ NoV5
    /\ OneProc
    /\ NoFile

\* write_matrix_to_file(filename, A)
F_Write ==
    /\ pc = "ready"
    /\ matrix_file' = write_matrix_to_file(A)
    /\ pc' = "written"
    /\ UNCHANGED <<A, B, result, heap, errno, impl, avx>>
    /\ UNCHANGED threadVars
    /\ UNCHANGED testVars
    /\ UNCHANGED mainVars
    /\ UNCHANGED v5
    /\ UNCHANGED available_threads

\* read_matrix_from_file(filename, &B)
F_Read ==
    /\ pc = "written"
    /\ LET r == read_matrix_from_text(matrix_file)
       IN /\ ret' = Returned(r.ret)
          /\ B' = r.matrix
    /\ pc' = "done"
    /\ UNCHANGED <<A, result, heap, errno, impl, avx, sorted, dense, ordinary>>
    /\ UNCHANGED threadVars
    /\ UNCHANGED mainVars
    /\ UNCHANGED v5
    /\ UNCHANGED available_threads
    /\ UNCHANGED matrix_file

NextFile ==
    \/ F_Write
    \/ F_Read

SpecFile == InitFile /\ [][NextFile]_vars

\* C30: for every valid CSR matrix with small integer values, the 1x1 matrix
\* with one stored value and the matrices with one stored value or none
\* included, the file write_matrix_to_file produces is accepted by
\* read_matrix_from_file with MATRIX_READ_SUCCESS and yields the same
\* rowCount, colCount, values, colIndices and rowPointers.
C30_FileRoundTrip ==
    (pc = "done" /\ ValidCSR(A)) =>
        /\ ret = Returned(MATRIX_READ_SUCCESS)
        /\ ~IsNull(B)
        /\ B.noRows = A.noRows
        /\ B.noCols = A.noCols
        /\ B.values = A.values
        /\ B.colIndices = A.colIndices
        /\ B.rowPointers = A.rowPointers

====
